---- MODULE Spec2Model ----
(***************************************************************************)
(* A model of the DNS DDoS defence core of therealshammz/ddd:              *)
(*   - monitor.TrafficMonitor  (internal/monitor/traffic.go)               *)
(*   - detector.DDoSDetector   (internal/detector, src/unnamed/part_001)   *)
(*   - blocker.IPBlocker       (internal/blocker, the Go text that         *)
(*                              follows the shell script in src/setup.sh)  *)
(*                                                                         *)
(* Time is counted in seconds: time.Second = 1, time.Minute = 60.  A call  *)
(* reads time.Now() once; the clock only moves in the Tick actions.  A     *)
(* domain name is the sequence of its characters (one-character strings),  *)
(* so that strings.Split, strings.Join and the digit count of looksRandom  *)
(* are computed as the code computes them.  A Go map is a function whose   *)
(* DOMAIN is the set of keys present.                                      *)
(***************************************************************************)
EXTENDS Integers, Sequences, FiniteSets, TLC

VARIABLES
    now,             \* the value time.Now() returns
    stats,           \* TrafficMonitor.stats : map[string]*IPStats
    history,         \* ghost: every QueryInfo recorded for an ip since its IPStats was created
    rateLimit,       \* DDoSDetector.rateLimit
    az,              \* the AnalyzeTraffic call in progress (its locals), or Idle
    blockedIPs,      \* IPBlocker.blockedIPs : map[string]*BlockedIP
    rateLimitedIPs,  \* IPBlocker.rateLimitedIPs : map[string]time.Time
    blockDuration,   \* IPBlocker.blockDuration (seconds)
    rd,              \* per thread: the IsBlocked / IsRateLimited call that holds the read lock
    fatal,           \* the Go runtime has thrown "concurrent map writes" (the process is gone)
    ret,             \* what the last completed call returned (NoRet after a call that returns nothing)
    nrec,            \* number of recording actions taken so far
    nticks,          \* number of clock steps taken so far
    nops,            \* number of mitigation-store writes taken so far
    hd,              \* per thread: the handleDNSRequest call in progress (its locals), or Idle
    wire,            \* ghost: what the last handleDNSRequest call to return did and sent
    ctx,             \* main's context: "live" until cancel() is called, then "cancelled"
    sweeper,         \* per StartCleanup goroutine: the place it has reached
    ticker,          \* per StartCleanup goroutine: its ticker's channel holds a tick
    mu,              \* per store: its sweeper holds the store's write lock
    swept            \* ghost: per StartCleanup goroutine, it has completed a run of cleanup

vars == <<now, stats, history, rateLimit, az, blockedIPs, rateLimitedIPs,
          blockDuration, rd, fatal, ret, nrec, nticks, nops, hd, wire,
          ctx, sweeper, ticker, mu, swept>>

monitorVars == <<stats, history>>
blockerVars == <<blockedIPs, rateLimitedIPs, rd, fatal>>
serverVars == <<hd, wire>>
sweepVars == <<ctx, sweeper, ticker, mu, swept>>

-----------------------------------------------------------------------------
(* Bounds of the model. *)

MaxRecords == 2        \* recording actions in Spec
MaxTicks == 2          \* clock steps in Spec
MaxSingles == 3        \* RecordRequest calls in SpecWindow
MaxWindowTicks == 2    \* clock steps in SpecWindow
MaxSteps == 2          \* recording actions and clock steps in SpecDetector
MaxBlockerSteps == 4   \* writes of the mitigation store and clock steps in SpecBlocker
MaxRequests == 4       \* requests recorded in SpecServer
MaxServerTicks == 1    \* clock steps in SpecServer
MaxUnknownSteps == 3   \* writes and clock steps in SpecUnknown
MaxIsolationSteps == 3 \* writes and clock steps in SpecIsolation
MaxHeldSteps == 3      \* recording actions and clock steps in SpecHeld
MaxSweepOps == 2       \* mitigation-store writes in LiveSweep
MaxSweepTicks == 2     \* clock steps in LiveSweep
MaxShutdownSteps == 2  \* store writes and clock steps in LiveShutdown
MaxSequentialRequests == 6 \* requests with a question in SpecSequential
MaxSequentialTicks == 1    \* clock steps in SpecSequential

(* Program constants. *)

Second == 1
Minute == 60
QueryCap == 100
RateLimitWindow == 30
DefaultBlockDuration == 300
DefaultRateLimit == 100

IPs == {"192.168.1.100", "192.168.1.101"}
Threads == {1, 2}

\* the two StartCleanup goroutines main starts: the monitor's and the blocker's
Sweepers == {"tm", "b"}
QTypes == {"A"}
Durations == {0, 10 * Second, 1 * Minute}
RateLimits == {15, DefaultRateLimit}
Reasons == {"high_request_rate", "test"}

-----------------------------------------------------------------------------
(* Strings. *)

Digit == {"0", "1", "2", "3", "4", "5", "6", "7", "8", "9"}
DigitChar == <<"0", "1", "2", "3", "4", "5", "6", "7", "8", "9">>

RECURSIVE Decimal(_)
\* strconv.Itoa / the shell's $i: the decimal digits of n >= 0
Decimal(n) ==
    IF n < 10 THEN <<DigitChar[n + 1]>>
    ELSE Decimal(n \div 10) \o <<DigitChar[(n % 10) + 1]>>

RECURSIVE SplitFrom(_, _, _)
\* strings.Split(s, "."), scanning from position i with the current part cur
SplitFrom(s, i, cur) ==
    IF i > Len(s) THEN <<cur>>
    ELSE IF s[i] = "." THEN <<cur>> \o SplitFrom(s, i + 1, <<>>)
    ELSE SplitFrom(s, i + 1, Append(cur, s[i]))

Split(s) == SplitFrom(s, 1, <<>>)

RECURSIVE Join(_)
\* strings.Join(parts, ".")
Join(parts) ==
    IF Len(parts) = 0 THEN <<>>
    ELSE IF Len(parts) = 1 THEN parts[1]
    ELSE parts[1] \o <<".">> \o Join(Tail(parts))

Range(s) == {s[i] : i \in 1..Len(s)}

-----------------------------------------------------------------------------
(* The names the clients query: the loops of test/detector_test.go and of  *)
(* the QUICKSTART scripts, indexed by the loop counter i.                  *)

ExampleCom == <<"e", "x", ".", "c", "o">>
NormalDomains == << <<"g", "o", ".", "c", "o">>, <<"g", "h", ".", "c", "o">>,
                    ExampleCom, <<"c", "f", ".", "c", "o">> >>
OddNames == << <<>>, <<"l", "h">>, <<"a", ".", "b", ".", "e", "x", ".", "c", "o">> >>

TestDomain(script, i) ==
    CASE script = "same" -> ExampleCom
      [] script = "rot"  -> NormalDomains[(i % Len(NormalDomains)) + 1]
      [] script = "sub"  -> <<"t">> \o Decimal(i) \o <<".">> \o ExampleCom
      [] script = "rnd"  -> <<"r", "9", "9", "9", "9">> \o Decimal(100 + (i % 900))
                                \o <<".">> \o ExampleCom
      [] script = "odd"  -> OddNames[(i % Len(OddNames)) + 1]

-----------------------------------------------------------------------------
(* monitor.TrafficMonitor *)

QueryInfo(domain, qtype, t) == [Domain |-> domain, QueryType |-> qtype, Timestamp |-> t]

\* RecordRequest with > in place of >= : the slice grows to 101 entries
RecordInto_keeps101(st, ip, domain, qtype, t) ==
    LET cur == IF ip \in DOMAIN st THEN st[ip]
               ELSE [RequestCount |-> 0, LastRequestTime |-> t, Queries |-> <<>>, FirstSeen |-> t]
        kept == IF Len(cur.Queries) > QueryCap THEN Tail(cur.Queries) ELSE cur.Queries
        new == [cur EXCEPT !.RequestCount = @ + 1,
                           !.LastRequestTime = t,
                           !.Queries = Append(kept, QueryInfo(domain, qtype, t))]
    IN  IF ip \in DOMAIN st THEN [st EXCEPT ![ip] = new] ELSE st @@ (ip :> new)

\* RecordRequest putting the new query at the head of the slice
RecordInto_atHead(st, ip, domain, qtype, t) ==
    LET cur == IF ip \in DOMAIN st THEN st[ip]
               ELSE [RequestCount |-> 0, LastRequestTime |-> t, Queries |-> <<>>, FirstSeen |-> t]
        kept == IF Len(cur.Queries) >= QueryCap THEN Tail(cur.Queries) ELSE cur.Queries
        new == [cur EXCEPT !.RequestCount = @ + 1,
                           !.LastRequestTime = t,
                           !.Queries = <<QueryInfo(domain, qtype, t)>> \o kept]
    IN  IF ip \in DOMAIN st THEN [st EXCEPT ![ip] = new] ELSE st @@ (ip :> new)

\* RecordRequest that never drops a query
RecordInto_uncapped(st, ip, domain, qtype, t) ==
    LET cur == IF ip \in DOMAIN st THEN st[ip]
               ELSE [RequestCount |-> 0, LastRequestTime |-> t, Queries |-> <<>>, FirstSeen |-> t]
        new == [cur EXCEPT !.RequestCount = @ + 1,
                           !.LastRequestTime = t,
                           !.Queries = Append(@, QueryInfo(domain, qtype, t))]
    IN  IF ip \in DOMAIN st THEN [st EXCEPT ![ip] = new] ELSE st @@ (ip :> new)

\* The body of RecordRequest: the map after recording (ip, domain, qtype) at time t
RecordInto(st, ip, domain, qtype, t) ==
    LET cur == IF ip \in DOMAIN st THEN st[ip]
               ELSE [RequestCount |-> 0, LastRequestTime |-> t, Queries |-> <<>>, FirstSeen |-> t]
        kept == IF Len(cur.Queries) >= QueryCap THEN Tail(cur.Queries) ELSE cur.Queries
        new == [cur EXCEPT !.RequestCount = @ + 1,
                           !.LastRequestTime = t,
                           !.Queries = Append(kept, QueryInfo(domain, qtype, t))]
    IN  IF ip \in DOMAIN st THEN [st EXCEPT ![ip] = new] ELSE st @@ (ip :> new)

\* the window test with the cutoff instant itself let in (!Before in place of After)
After_inclusive(queries, cutoff) == SelectSeq(queries, LAMBDA q : q.Timestamp >= cutoff)

\* time.Time.After(cutoff) over the stored queries, in slice order
After(queries, cutoff) == SelectSeq(queries, LAMBDA q : q.Timestamp > cutoff)

RECURSIVE Reversed(_)
Reversed(s) == IF s = <<>> THEN <<>> ELSE Append(Reversed(Tail(s)), Head(s))

\* GetRecentQueries returning the newest query first
RecentQueries_newestFirst(st, ip, duration, t) ==
    IF ip \notin DOMAIN st THEN <<>>
    ELSE Reversed(After(st[ip].Queries, t - duration))

\* GetRecentQueries(ip, duration) at time t: nil (the empty slice) for an unknown ip
RecentQueries(st, ip, duration, t) ==
    IF ip \notin DOMAIN st THEN <<>>
    ELSE After(st[ip].Queries, t - duration)

\* GetRecentRequestCount that does not see the query appended last
RecentRequestCount_missesLast(st, ip, duration, t) ==
    IF ip \notin DOMAIN st THEN 0
    ELSE Len(After(SubSeq(st[ip].Queries, 1, Len(st[ip].Queries) - 1), t - duration))

\* GetRecentRequestCount answering for a source without a record with the count of
\* some source that has one
RecentRequestCount_anySource(st, ip, duration, t) ==
    IF DOMAIN st = {} THEN 0
    ELSE LET k == IF ip \in DOMAIN st THEN ip ELSE CHOOSE j \in DOMAIN st : TRUE
         IN  Len(After(st[k].Queries, t - duration))

\* GetRecentRequestCount(ip, duration) at time t
RecentRequestCount(st, ip, duration, t) ==
    IF ip \notin DOMAIN st THEN 0
    ELSE Len(After(st[ip].Queries, t - duration))

NoRet == [op |-> "none"]
Idle == [pc |-> "idle"]
EmptyMap == [k \in {} |-> 0]

\* delete(m, k)
Delete(m, k) == [j \in DOMAIN m \ {k} |-> m[j]]

\* the state main leaves after constructing the components, the -rate-limit flag being
\* one of limits
Constructed(limits) ==
    /\ now = 0
    /\ stats = EmptyMap
    /\ history = [ip \in IPs |-> <<>>]
    /\ rateLimit \in limits
    /\ az = Idle
    /\ blockedIPs = EmptyMap
    /\ rateLimitedIPs = EmptyMap
    /\ blockDuration = DefaultBlockDuration
    /\ rd = [t \in Threads |-> Idle]
    /\ fatal = FALSE
    /\ ret = NoRet
    /\ nrec = 0
    /\ nticks = 0
    /\ nops = 0
    /\ hd = [t \in Threads |-> Idle]
    /\ wire = NoRet
    /\ ctx = "live"
    /\ sweeper = [k \in Sweepers |-> "select"]
    /\ ticker = [k \in Sweepers |-> FALSE]
    /\ mu = [k \in Sweepers |-> FALSE]
    /\ swept = [k \in Sweepers |-> FALSE]

Init == Constructed(RateLimits)

RecordRequest(ip, domain, qtype) ==
    /\ nrec' = nrec + 1
    /\ stats' = RecordInto(stats, ip, domain, qtype, now)
    /\ history' = [history EXCEPT ![ip] = Append(@, QueryInfo(domain, qtype, now))]
    /\ ret' = NoRet
    /\ UNCHANGED <<now, rateLimit, az, blockerVars, blockDuration, nticks, nops>>

GetRecentRequestCount(ip, duration) ==
    /\ ret' = [op |-> "GetRecentRequestCount", ip |-> ip, duration |-> duration,
               count |-> RecentRequestCount(stats, ip, duration, now)]
    /\ UNCHANGED <<now, monitorVars, rateLimit, az, blockerVars, blockDuration,
                   nrec, nticks, nops>>

GetRecentQueries(ip, duration) ==
    /\ ret' = [op |-> "GetRecentQueries", ip |-> ip, duration |-> duration,
               queries |-> RecentQueries(stats, ip, duration, now)]
    /\ UNCHANGED <<now, monitorVars, rateLimit, az, blockerVars, blockDuration,
                   nrec, nticks, nops>>

RECURSIVE RecordLoop(_, _, _, _, _, _, _)
\* for i := first; i < first + n; i++ { tm.RecordRequest(ip, TestDomain(script, i), qtype) }
\* (the first half of the iterations, then the second half)
RecordLoop(st, ip, script, qtype, t, first, n) ==
    IF n = 0 THEN st
    ELSE IF n = 1 THEN RecordInto(st, ip, TestDomain(script, first), qtype, t)
    ELSE LET h == n \div 2
             half == RecordLoop(st, ip, script, qtype, t, first, h)
         IN  IF ip \in DOMAIN half
             THEN RecordLoop(half, ip, script, qtype, t, first + h, n - h)
             ELSE half

\* ghost: the QueryInfo values the same loop hands to RecordRequest, in order
SentLoop(script, qtype, t, first, n) ==
    [i \in 1..n |-> QueryInfo(TestDomain(script, first + i - 1), qtype, t)]

Recorded(st, ip) == IF ip \in DOMAIN st THEN st[ip].RequestCount ELSE 0

\* A client loop of n requests of one script, all recorded within the same second
RecordBatch(ip, script, n) ==
    /\ nrec' = nrec + 1
    /\ stats' = RecordLoop(stats, ip, script, "A", now, Recorded(stats, ip), n)
    /\ history' = [history EXCEPT ![ip] = @ \o SentLoop(script, "A", now, Recorded(stats, ip), n)]
    /\ ret' = NoRet
    /\ UNCHANGED <<now, rateLimit, az, blockerVars, blockDuration, nticks, nops>>

\* cleanup dropping the record last used at the cutoff itself as well
Stale_atCutoff(st, ip, t) == st[ip].LastRequestTime <= t - 30 * Minute

\* stats.LastRequestTime.Before(cutoff), cutoff = now - 30 minutes
Stale(st, ip, t) == st[ip].LastRequestTime < t - 30 * Minute

\* TrafficMonitor.cleanup (run by StartCleanup on each tick of its ticker)
cleanup ==
    /\ stats' = [ip \in {k \in DOMAIN stats : ~Stale(stats, k, now)} |-> stats[ip]]
    /\ history' = [ip \in IPs |-> IF ip \in DOMAIN stats /\ Stale(stats, ip, now)
                                  THEN <<>> ELSE history[ip]]
    /\ ret' = [op |-> "TrafficMonitor.cleanup",
               removed |-> {k \in DOMAIN stats : Stale(stats, k, now)}]
    /\ UNCHANGED <<now, rateLimit, az, blockerVars, blockDuration, nrec, nticks, nops>>

Tick(d) ==
    /\ nticks' = nticks + 1
    /\ now' = now + d
    /\ ret' = NoRet
    /\ UNCHANGED <<monitorVars, rateLimit, az, blockerVars, blockDuration, nrec, nops>>

-----------------------------------------------------------------------------
(* detector.DDoSDetector *)

\* float64(n) / float64(d) > k, for the integers n, d and k >= 0 (exact at these sizes):
\* a division by zero gives +Inf for n > 0 and NaN, which compares false, for n = 0
RatioGreater(n, d, k) ==
    IF d > 0 THEN n > k * d
    ELSE IF d = 0 THEN n > 0
    ELSE n < k * d

calculateSeverity(requestCount, limit) ==
    IF RatioGreater(requestCount, limit, 5) THEN "high"
    ELSE IF RatioGreater(requestCount, limit, 2) THEN "medium"
    ELSE "low"

\* domainCounts[domain] after the counting loop
DomainCount(queries, domain) ==
    Cardinality({i \in 1..Len(queries) : queries[i].Domain = domain})

\* checkRepeatedQueries taking half of the queries for a majority (>= 0.5)
checkRepeatedQueries_atHalf(queries) ==
    IF Len(queries) < 20 THEN FALSE
    ELSE \E i \in 1..Len(queries) :
             LET count == DomainCount(queries, queries[i].Domain)
             IN  2 * count >= Len(queries) /\ count > 10

\* checkRepeatedQueries without its test of len(queries) < 20
checkRepeatedQueries_nofloor(queries) ==
    \E i \in 1..Len(queries) :
        LET count == DomainCount(queries, queries[i].Domain)
        IN  RatioGreater(2 * count, Len(queries), 1) /\ count > 10

\* float64(count)/float64(len(queries)) > 0.5 is 2*count/len > 1
checkRepeatedQueries(queries) ==
    IF Len(queries) < 20 THEN FALSE
    ELSE \E i \in 1..Len(queries) :
             LET count == DomainCount(queries, queries[i].Domain)
             IN  RatioGreater(2 * count, Len(queries), 1) /\ count > 10

DigitCount(s) == Cardinality({i \in 1..Len(s) : s[i] \in Digit})

looksRandom(s) ==
    IF Len(s) < 8 THEN FALSE
    ELSE RatioGreater(2 * DigitCount(s), Len(s), 1)

\* baseDomain and subdomain of one query, as the first loop of checkRandomSubdomains
\* computes them; NoSplit when the name has fewer than two parts
NoSplit == [base |-> <<>>, sub |-> <<>>, ok |-> FALSE]
SplitDomain(domain) ==
    LET parts == Split(domain)
    IN  IF Len(parts) >= 2
        THEN [base |-> Join(SubSeq(parts, Len(parts) - 1, Len(parts))),
              sub  |-> Join(SubSeq(parts, 1, Len(parts) - 2)),
              ok   |-> TRUE]
        ELSE NoSplit

\* the keys of baseDomains
BaseDomains(queries) ==
    {SplitDomain(queries[i].Domain).base :
        i \in {j \in 1..Len(queries) : LET sd == SplitDomain(queries[j].Domain)
                                       IN  sd.ok /\ sd.sub # <<>>}}

\* uniqueSubdomains for one base domain
UniqueSubdomains(queries, baseDomain) ==
    {SplitDomain(queries[i].Domain).sub :
        i \in {j \in 1..Len(queries) : LET sd == SplitDomain(queries[j].Domain)
                                       IN  sd.ok /\ sd.sub # <<>> /\ sd.base = baseDomain}}

\* checkRandomSubdomains asking for more than 21 distinct subdomains
checkRandomSubdomains_over21(queries) ==
    IF Len(queries) < 30 THEN FALSE
    ELSE \E b \in BaseDomains(queries) :
             \/ Cardinality(UniqueSubdomains(queries, b)) > 21
             \/ Cardinality({sub \in UniqueSubdomains(queries, b) : looksRandom(sub)}) > 10

checkRandomSubdomains(queries) ==
    IF Len(queries) < 30 THEN FALSE
    ELSE \E b \in BaseDomains(queries) :
             \/ Cardinality(UniqueSubdomains(queries, b)) > 20
             \/ Cardinality({sub \in UniqueSubdomains(queries, b) : looksRandom(sub)}) > 10

\* checkQueryBurst counting the whole slice, not the last 10 seconds of it
checkQueryBurst_wholeMinute(queries, t) ==
    IF Len(queries) < 10 THEN FALSE
    ELSE Len(queries) > 50

\* checkQueryBurst at time t
checkQueryBurst(queries, t) ==
    IF Len(queries) < 10 THEN FALSE
    ELSE Len(After(queries, t - 10 * Second)) > 50

\* the initial result made with IsAttack set
NoAttack_attackSet ==
    [IsAttack |-> TRUE, AttackType |-> "", Severity |-> "", Description |-> "",
     ShouldBlock |-> FALSE]

\* &DetectionResult{IsAttack: false, ShouldBlock: false}
NoAttack ==
    [IsAttack |-> FALSE, AttackType |-> "", Severity |-> "", Description |-> "",
     ShouldBlock |-> FALSE]

\* check 1 blocking at the limit itself instead of at twice the limit
HighRateResult_blocksAtLimit(recentCount, limit) ==
    [IsAttack |-> TRUE, AttackType |-> "high_request_rate",
     Severity |-> calculateSeverity(recentCount, limit),
     Description |-> "Excessive request rate detected",
     ShouldBlock |-> recentCount > limit]

\* the result of check 1 of AnalyzeTraffic
HighRateResult(recentCount, limit) ==
    [IsAttack |-> TRUE, AttackType |-> "high_request_rate",
     Severity |-> calculateSeverity(recentCount, limit),
     Description |-> "Excessive request rate detected",
     ShouldBlock |-> recentCount > limit * 2]

RepeatedResult ==
    [IsAttack |-> TRUE, AttackType |-> "repeated_queries", Severity |-> "medium",
     Description |-> "Repeated queries to same domain detected", ShouldBlock |-> TRUE]

RandomSubdomainResult ==
    [IsAttack |-> TRUE, AttackType |-> "random_subdomain", Severity |-> "high",
     Description |-> "Random subdomain attack detected", ShouldBlock |-> TRUE]

BurstResult ==
    [IsAttack |-> TRUE, AttackType |-> "query_burst", Severity |-> "medium",
     Description |-> "Query burst detected", ShouldBlock |-> FALSE]

\* checks 2 and 3 tried in the other order
QueriesVerdict_randomFirst(queries) ==
    IF checkRandomSubdomains(queries) THEN RandomSubdomainResult
    ELSE IF checkRepeatedQueries(queries) THEN RepeatedResult
    ELSE NoAttack

\* checks 2 and 3 of AnalyzeTraffic on the slice GetRecentQueries returned
QueriesVerdict(queries) ==
    IF checkRepeatedQueries(queries) THEN RepeatedResult
    ELSE IF checkRandomSubdomains(queries) THEN RandomSubdomainResult
    ELSE NoAttack

AnalyzeRet(ip, result, count, queries) ==
    [op |-> "AnalyzeTraffic", ip |-> ip, result |-> result, count |-> count,
     queries |-> queries]

\* AnalyzeTraffic up to the end of check 1: GetRecentRequestCount(ip, 1 minute)
AnalyzeCount(ip) ==
    /\ az = Idle
    /\ LET recentCount == RecentRequestCount(stats, ip, 1 * Minute, now)
       IN  IF recentCount > rateLimit
           THEN /\ ret' = AnalyzeRet(ip, HighRateResult(recentCount, rateLimit), recentCount, <<>>)
                /\ az' = Idle
           ELSE /\ ret' = NoRet
                /\ az' = [pc |-> "queries", ip |-> ip, count |-> recentCount]
    /\ UNCHANGED <<now, monitorVars, rateLimit, blockerVars, blockDuration, nrec, nticks, nops>>

\* AnalyzeTraffic, checks 2 and 3: GetRecentQueries(ip, 1 minute), then the two checks
AnalyzeQueries ==
    /\ az.pc = "queries"
    /\ LET queries == RecentQueries(stats, az.ip, 1 * Minute, now)
           result == QueriesVerdict(queries)
       IN  IF result.IsAttack
           THEN /\ ret' = AnalyzeRet(az.ip, result, az.count, queries)
                /\ az' = Idle
           ELSE /\ ret' = NoRet
                /\ az' = [pc |-> "burst", ip |-> az.ip, count |-> az.count, queries |-> queries]
    /\ UNCHANGED <<now, monitorVars, rateLimit, blockerVars, blockDuration, nrec, nticks, nops>>

\* AnalyzeTraffic, check 4 and the final return
AnalyzeBurst ==
    /\ az.pc = "burst"
    /\ ret' = AnalyzeRet(az.ip, IF checkQueryBurst(az.queries, now) THEN BurstResult ELSE NoAttack,
                         az.count, az.queries)
    /\ az' = Idle
    /\ UNCHANGED <<now, monitorVars, rateLimit, blockerVars, blockDuration, nrec, nticks, nops>>

-----------------------------------------------------------------------------
(* blocker.IPBlocker.  BlockIP, RateLimitIP, UnblockIP and cleanup hold    *)
(* b.mu for writing and are atomic steps, taken while no reader holds the  *)
(* lock.  IsBlocked and IsRateLimited hold b.mu for reading only, so two   *)
(* of them can be inside at once; each is a lookup step and, for an        *)
(* expired entry, a later delete step.  A delete that runs while another   *)
(* goroutine is inside the read lock is an unsynchronised map write: the   *)
(* runtime either lets it pass or throws a fatal error.                    *)

\* no goroutine holds b.mu for reading
NoReader == \A t \in Threads : rd[t] = Idle

\* another goroutine is inside b.mu.RLock() while t accesses the maps
Raced(t) == \E u \in Threads \ {t} : rd[u] # Idle

\* the outcomes of the map access of t: fatal or not when raced, never fatal otherwise
Outcomes(t) == IF Raced(t) THEN {TRUE, FALSE} ELSE {FALSE}

Fatal == [op |-> "fatal"]

\* IsBlocked comparing with !After in place of Before: still blocked at BlockUntil itself
StillBlocked_inclusive(blocked, t) == t <= blocked.BlockUntil

\* time.Now().Before(blocked.BlockUntil)
StillBlocked(blocked, t) == t < blocked.BlockUntil

\* IsRateLimited comparing with !After in place of Before: still limited at limitedUntil itself
StillLimited_inclusive(limitedUntil, t) == t <= limitedUntil

\* time.Now().Before(limitedUntil)
StillLimited(limitedUntil, t) == t < limitedUntil

\* IsBlocked up to the test of the block found: returns unless the block has expired
IsBlocked(t, ip) ==
    /\ ~fatal /\ rd[t] = Idle
    /\ \E f \in Outcomes(t) :
          /\ fatal' = f
          /\ IF f THEN ret' = Fatal /\ rd' = rd
             ELSE IF ip \notin DOMAIN blockedIPs
             THEN /\ ret' = [op |-> "IsBlocked", ip |-> ip, val |-> FALSE, exists |-> FALSE]
                  /\ rd' = rd
             ELSE IF StillBlocked(blockedIPs[ip], now)
             THEN /\ ret' = [op |-> "IsBlocked", ip |-> ip, val |-> TRUE, exists |-> TRUE,
                             blocked |-> blockedIPs[ip]]
                  /\ rd' = rd
             ELSE /\ ret' = NoRet
                  /\ rd' = [rd EXCEPT ![t] = [pc |-> "deleteBlock", ip |-> ip,
                                               blocked |-> blockedIPs[ip]]]
    /\ UNCHANGED <<now, monitorVars, rateLimit, az, blockedIPs, rateLimitedIPs,
                   blockDuration, nrec, nticks, nops>>

\* IsBlocked returning false for an expired block without deleting it
IsBlockedDelete_keeps(t) ==
    /\ ~fatal /\ rd[t].pc = "deleteBlock"
    /\ \E f \in Outcomes(t) :
          /\ fatal' = f
          /\ ret' = IF f THEN Fatal
                    ELSE [op |-> "IsBlocked", ip |-> rd[t].ip, val |-> FALSE, exists |-> TRUE,
                          blocked |-> rd[t].blocked]
    /\ rd' = [rd EXCEPT ![t] = Idle]
    /\ UNCHANGED <<now, monitorVars, rateLimit, az, blockedIPs, rateLimitedIPs, blockDuration,
                   nrec, nticks, nops>>

\* IsBlocked from delete(b.blockedIPs, ip) to the return of false
IsBlockedDelete(t) ==
    /\ ~fatal /\ rd[t].pc = "deleteBlock"
    /\ \E f \in Outcomes(t) :
          /\ fatal' = f
          /\ ret' = IF f THEN Fatal
                    ELSE [op |-> "IsBlocked", ip |-> rd[t].ip, val |-> FALSE, exists |-> TRUE,
                          blocked |-> rd[t].blocked]
    /\ blockedIPs' = Delete(blockedIPs, rd[t].ip)
    /\ rd' = [rd EXCEPT ![t] = Idle]
    /\ UNCHANGED <<now, monitorVars, rateLimit, az, rateLimitedIPs, blockDuration,
                   nrec, nticks, nops>>

\* IsRateLimited up to the test of the limit found
IsRateLimited(t, ip) ==
    /\ ~fatal /\ rd[t] = Idle
    /\ \E f \in Outcomes(t) :
          /\ fatal' = f
          /\ IF f THEN ret' = Fatal /\ rd' = rd
             ELSE IF ip \notin DOMAIN rateLimitedIPs
             THEN /\ ret' = [op |-> "IsRateLimited", ip |-> ip, val |-> FALSE, exists |-> FALSE]
                  /\ rd' = rd
             ELSE IF StillLimited(rateLimitedIPs[ip], now)
             THEN /\ ret' = [op |-> "IsRateLimited", ip |-> ip, val |-> TRUE, exists |-> TRUE,
                             limitedUntil |-> rateLimitedIPs[ip]]
                  /\ rd' = rd
             ELSE /\ ret' = NoRet
                  /\ rd' = [rd EXCEPT ![t] = [pc |-> "deleteLimit", ip |-> ip,
                                               limitedUntil |-> rateLimitedIPs[ip]]]
    /\ UNCHANGED <<now, monitorVars, rateLimit, az, blockedIPs, rateLimitedIPs,
                   blockDuration, nrec, nticks, nops>>

\* IsRateLimited deleting the block of the source along with its expired rate limit
IsRateLimitedDelete_alsoUnblocks(t) ==
    /\ ~fatal /\ rd[t].pc = "deleteLimit"
    /\ \E f \in Outcomes(t) :
          /\ fatal' = f
          /\ ret' = IF f THEN Fatal
                    ELSE [op |-> "IsRateLimited", ip |-> rd[t].ip, val |-> FALSE, exists |-> TRUE,
                          limitedUntil |-> rd[t].limitedUntil]
    /\ rateLimitedIPs' = Delete(rateLimitedIPs, rd[t].ip)
    /\ blockedIPs' = Delete(blockedIPs, rd[t].ip)
    /\ rd' = [rd EXCEPT ![t] = Idle]
    /\ UNCHANGED <<now, monitorVars, rateLimit, az, blockDuration, nrec, nticks, nops>>

\* IsRateLimited from delete(b.rateLimitedIPs, ip) to the return of false
IsRateLimitedDelete(t) ==
    /\ ~fatal /\ rd[t].pc = "deleteLimit"
    /\ \E f \in Outcomes(t) :
          /\ fatal' = f
          /\ ret' = IF f THEN Fatal
                    ELSE [op |-> "IsRateLimited", ip |-> rd[t].ip, val |-> FALSE, exists |-> TRUE,
                          limitedUntil |-> rd[t].limitedUntil]
    /\ rateLimitedIPs' = Delete(rateLimitedIPs, rd[t].ip)
    /\ rd' = [rd EXCEPT ![t] = Idle]
    /\ UNCHANGED <<now, monitorVars, rateLimit, az, blockedIPs, blockDuration,
                   nrec, nticks, nops>>

\* BlockIP putting a fresh entry in place of the one it finds
Blocked_replaced(m, ip, reason, t, duration) ==
    LET new == [IP |-> ip, BlockedAt |-> t, BlockUntil |-> t + duration * Second,
                Reason |-> reason, BlockCount |-> 1]
    IN  IF ip \in DOMAIN m THEN [m EXCEPT ![ip] = new] ELSE m @@ (ip :> new)

\* BlockIP adding the duration to the old BlockUntil of the entry it finds
Blocked_extended(m, ip, reason, t, duration) ==
    IF ip \in DOMAIN m
    THEN [m EXCEPT ![ip] = [@ EXCEPT !.BlockUntil = @ + duration * Second,
                                     !.BlockCount = @ + 1,
                                     !.Reason = reason]]
    ELSE m @@ (ip :> [IP |-> ip, BlockedAt |-> t, BlockUntil |-> t + duration * Second,
                      Reason |-> reason, BlockCount |-> 1])

\* b.blockedIPs after BlockIP(ip, reason) at time t
Blocked(m, ip, reason, t, duration) ==
    LET blockUntil == t + duration * Second
    IN  IF ip \in DOMAIN m
        THEN [m EXCEPT ![ip] = [@ EXCEPT !.BlockUntil = blockUntil,
                                         !.BlockCount = @ + 1,
                                         !.Reason = reason]]
        ELSE m @@ (ip :> [IP |-> ip, BlockedAt |-> t, BlockUntil |-> blockUntil,
                          Reason |-> reason, BlockCount |-> 1])

BlockIP(ip, reason) ==
    /\ ~fatal /\ NoReader
    /\ blockedIPs' = Blocked(blockedIPs, ip, reason, now, blockDuration)
    /\ ret' = [op |-> "BlockIP", ip |-> ip]
    /\ nops' = nops + 1
    /\ UNCHANGED <<now, monitorVars, rateLimit, az, rateLimitedIPs, blockDuration,
                   rd, fatal, nrec, nticks>>

RateLimitIP(ip) ==
    /\ ~fatal /\ NoReader
    /\ rateLimitedIPs' = IF ip \in DOMAIN rateLimitedIPs
                         THEN [rateLimitedIPs EXCEPT ![ip] = now + RateLimitWindow * Second]
                         ELSE rateLimitedIPs @@ (ip :> now + RateLimitWindow * Second)
    /\ ret' = [op |-> "RateLimitIP", ip |-> ip]
    /\ nops' = nops + 1
    /\ UNCHANGED <<now, monitorVars, rateLimit, az, blockedIPs, blockDuration,
                   rd, fatal, nrec, nticks>>

\* UnblockIP that forgets the rate limit
UnblockedLimits_kept(m, ip) == m

\* b.rateLimitedIPs after UnblockIP(ip)
UnblockedLimits(m, ip) == Delete(m, ip)

\* hadBlock and hadLimit note what the two deletes found
UnblockIP(ip) ==
    /\ ~fatal /\ NoReader
    /\ blockedIPs' = Delete(blockedIPs, ip)
    /\ rateLimitedIPs' = UnblockedLimits(rateLimitedIPs, ip)
    /\ ret' = [op |-> "UnblockIP", ip |-> ip, hadBlock |-> ip \in DOMAIN blockedIPs,
               hadLimit |-> ip \in DOMAIN rateLimitedIPs]
    /\ nops' = nops + 1
    /\ UNCHANGED <<now, monitorVars, rateLimit, az, blockDuration, rd, fatal, nrec, nticks>>

\* a sweep that forgets the rate limits
IPBlocker_cleanup_blocksOnly ==
    /\ ~fatal /\ NoReader
    /\ blockedIPs' = [ip \in {k \in DOMAIN blockedIPs : ~(now > blockedIPs[k].BlockUntil)}
                         |-> blockedIPs[ip]]
    /\ ret' = [op |-> "cleanup",
               unblocked |-> {k \in DOMAIN blockedIPs : now > blockedIPs[k].BlockUntil},
               unlimited |-> {}]
    /\ UNCHANGED <<now, monitorVars, rateLimit, az, rateLimitedIPs, blockDuration, rd, fatal,
                   nrec, nticks, nops>>

\* IPBlocker.cleanup (run by IPBlocker.StartCleanup on each tick of its ticker)
IPBlocker_cleanup ==
    /\ ~fatal /\ NoReader
    /\ blockedIPs' = [ip \in {k \in DOMAIN blockedIPs : ~(now > blockedIPs[k].BlockUntil)}
                         |-> blockedIPs[ip]]
    /\ rateLimitedIPs' = [ip \in {k \in DOMAIN rateLimitedIPs : ~(now > rateLimitedIPs[k])}
                             |-> rateLimitedIPs[ip]]
    /\ ret' = [op |-> "cleanup",
               unblocked |-> {k \in DOMAIN blockedIPs : now > blockedIPs[k].BlockUntil},
               unlimited |-> {k \in DOMAIN rateLimitedIPs : now > rateLimitedIPs[k]}]
    /\ UNCHANGED <<now, monitorVars, rateLimit, az, blockDuration, rd, fatal,
                   nrec, nticks, nops>>

-----------------------------------------------------------------------------
(* The two StartCleanup goroutines of main, the monitor's ("tm") and the   *)
(* blocker's ("b"): for { select { case <-ctx.Done(): return;              *)
(* case <-ticker.C: cleanup() } }, cleanup taking the store's write lock   *)
(* and releasing it, by defer, when it returns.  A goroutine is at         *)
(* "select", at the "Lock" call of cleanup, inside "cleanup" with the lock *)
(* held, or "stopped" once StartCleanup has returned.                      *)

\* cleanup returning without its deferred Unlock
Unlocked_kept(m, k) == m

\* the deferred mu.Unlock() of cleanup
Unlocked(m, k) == [m EXCEPT ![k] = FALSE]

\* the ticker of k puts a tick in its channel (of capacity 1; a tick that finds the
\* channel full is dropped)
TickerFires(k) ==
    /\ ~fatal /\ sweeper[k] # "stopped" /\ ~ticker[k]
    /\ ticker' = [ticker EXCEPT ![k] = TRUE]
    /\ UNCHANGED <<now, monitorVars, rateLimit, az, blockerVars, blockDuration, ret,
                   nrec, nticks, nops, serverVars, ctx, sweeper, mu, swept>>

\* select takes case <-ticker.C and calls cleanup
SweeperReceive(k) ==
    /\ ~fatal /\ sweeper[k] = "select" /\ ticker[k]
    /\ ticker' = [ticker EXCEPT ![k] = FALSE]
    /\ sweeper' = [sweeper EXCEPT ![k] = "Lock"]
    /\ UNCHANGED <<now, monitorVars, rateLimit, az, blockerVars, blockDuration, ret,
                   nrec, nticks, nops, serverVars, ctx, mu, swept>>

\* mu.Lock() of cleanup returns: no goroutine holds the lock, for reading or writing
SweeperLock(k) ==
    /\ ~fatal /\ sweeper[k] = "Lock" /\ ~mu[k]
    /\ k = "b" => NoReader
    /\ mu' = [mu EXCEPT ![k] = TRUE]
    /\ sweeper' = [sweeper EXCEPT ![k] = "cleanup"]
    /\ UNCHANGED <<now, monitorVars, rateLimit, az, blockerVars, blockDuration, ret,
                   nrec, nticks, nops, serverVars, ctx, ticker, swept>>

\* the body of cleanup and its return, back to the select
SweeperCleanup(k) ==
    /\ ~fatal /\ sweeper[k] = "cleanup"
    /\ IF k = "tm" THEN cleanup ELSE IPBlocker_cleanup
    /\ mu' = Unlocked(mu, k)
    /\ sweeper' = [sweeper EXCEPT ![k] = "select"]
    /\ swept' = [swept EXCEPT ![k] = TRUE]
    /\ UNCHANGED <<serverVars, ctx, ticker>>

\* select takes case <-ctx.Done(): StartCleanup returns, its deferred ticker.Stop() runs
SweeperStop(k) ==
    /\ ~fatal /\ sweeper[k] = "select" /\ ctx = "cancelled"
    /\ sweeper' = [sweeper EXCEPT ![k] = "stopped"]
    /\ UNCHANGED <<now, monitorVars, rateLimit, az, blockerVars, blockDuration, ret,
                   nrec, nticks, nops, serverVars, ctx, ticker, mu, swept>>

\* main calls cancel()
Cancel ==
    /\ ~fatal /\ ctx = "live"
    /\ ctx' = "cancelled"
    /\ UNCHANGED <<now, monitorVars, rateLimit, az, blockerVars, blockDuration, ret,
                   nrec, nticks, nops, serverVars, sweeper, ticker, mu, swept>>

-----------------------------------------------------------------------------
(* dns.Server.handleDNSRequest, one call per request, each in a goroutine  *)
(* of its own.  hd[t] holds the locals of the call of goroutine t and the  *)
(* place it has reached; every call it makes into the monitor, the         *)
(* detector and the blocker is a step of its own, so that the calls of two *)
(* requests interleave.  wire notes, when a call returns, what it did and  *)
(* what it sent.                                                           *)

Refused == "REFUSED"
ServerFailure == "SERVFAIL"
NoReply == "none"

\* the locals of a call that has extracted the client address and has the answer false
\* of IsBlocked; question tells whether the message carries a question (len(r.Question) > 0),
\* count is recentCount of its call of AnalyzeTraffic while that call runs
Started(ip, domain, question) ==
    [pc |-> "IsRateLimited", ip |-> ip, domain |-> domain, question |-> question,
     delayed |-> FALSE, recorded |-> FALSE, analysed |-> FALSE, count |-> 0,
     result |-> NoAttack]

\* what a returning call did: blocked (IsBlocked answered true), mitigation (the call
\* made into the blocker after the analysis), forwarded (the request went upstream),
\* response (the reply code written to the client, if any)
Sent(blocked, mitigation, forwarded, response) ==
    [op |-> "handleDNSRequest", blocked |-> blocked, mitigation |-> mitigation,
     forwarded |-> forwarded, response |-> response]

\* a refusal that goes on to the upstream server in place of answering REFUSED
Refusal_forwarded(blocked, mitigation) == Sent(blocked, mitigation, TRUE, NoReply)

\* s.sendRefused(w, r); return
Refusal(blocked, mitigation) == Sent(blocked, mitigation, FALSE, Refused)

\* clientIP := s.extractClientIP(w.RemoteAddr());
\* if s.ipBlocker.IsBlocked(clientIP) { s.sendRefused(w, r); return }
HandleIsBlocked(t, ip, domain, question) ==
    /\ hd[t] = Idle
    /\ IsBlocked(t, ip)
    /\ IF fatal' THEN UNCHANGED <<serverVars, sweepVars>>
       ELSE IF ret' = NoRet
       THEN /\ hd' = [hd EXCEPT ![t] = [Started(ip, domain, question)
                                           EXCEPT !.pc = "IsBlockedDelete"]]
            /\ wire' = wire
       ELSE IF ret'.val
       THEN wire' = Refusal(TRUE, "none") /\ hd' = hd
       ELSE hd' = [hd EXCEPT ![t] = Started(ip, domain, question)] /\ wire' = wire

\* the same call of IsBlocked, from its delete to its return of false
HandleIsBlockedDelete(t) ==
    /\ hd[t].pc = "IsBlockedDelete"
    /\ IsBlockedDelete(t)
    /\ IF fatal' THEN UNCHANGED <<serverVars, sweepVars>>
       ELSE hd' = [hd EXCEPT ![t].pc = "IsRateLimited"] /\ wire' = wire

\* if s.ipBlocker.IsRateLimited(clientIP) { ... }
HandleIsRateLimited(t) ==
    /\ hd[t].pc = "IsRateLimited"
    /\ IsRateLimited(t, hd[t].ip)
    /\ IF fatal' THEN UNCHANGED <<serverVars, sweepVars>>
       ELSE IF ret' = NoRet
       THEN hd' = [hd EXCEPT ![t].pc = "IsRateLimitedDelete"] /\ wire' = wire
       ELSE IF ret'.val
       THEN hd' = [hd EXCEPT ![t].pc = "Sleep", ![t].delayed = TRUE] /\ wire' = wire
       ELSE hd' = [hd EXCEPT ![t].pc = "Record"] /\ wire' = wire

\* the same call of IsRateLimited, from its delete to its return of false
HandleIsRateLimitedDelete(t) ==
    /\ hd[t].pc = "IsRateLimitedDelete"
    /\ IsRateLimitedDelete(t)
    /\ IF fatal' THEN UNCHANGED <<serverVars, sweepVars>>
       ELSE hd' = [hd EXCEPT ![t].pc = "Record"] /\ wire' = wire

\* time.Sleep(500 * time.Millisecond) returns; the half second is less than the unit
\* of the clock, whose advance while the goroutine sleeps is a Tick
HandleSleep(t) ==
    /\ ~fatal /\ hd[t].pc = "Sleep"
    /\ hd' = [hd EXCEPT ![t].pc = "Record"]
    /\ ret' = NoRet
    /\ UNCHANGED <<now, monitorVars, rateLimit, az, blockerVars, blockDuration,
                   nrec, nticks, nops, wire>>

\* if len(r.Question) == 0 { s.sendRefused(w, r); return }; s.trafficMonitor.RecordRequest(...)
HandleRecord(t) ==
    /\ ~fatal /\ hd[t].pc = "Record"
    /\ IF hd[t].question
       THEN /\ RecordRequest(hd[t].ip, hd[t].domain, "A")
            /\ hd' = [hd EXCEPT ![t].pc = "AnalyzeTraffic", ![t].recorded = TRUE]
            /\ wire' = wire
       ELSE /\ wire' = Refusal(FALSE, "none")
            /\ hd' = [hd EXCEPT ![t] = Idle]
            /\ ret' = NoRet
            /\ UNCHANGED <<now, monitorVars, rateLimit, az, blockerVars, blockDuration,
                           nrec, nticks, nops>>

\* AnalyzeTraffic called by the handler: GetRecentRequestCount and check 1
HandleAnalyzeCount(t) ==
    /\ ~fatal /\ hd[t].pc = "AnalyzeTraffic"
    /\ LET recentCount == RecentRequestCount(stats, hd[t].ip, 1 * Minute, now)
       IN  IF recentCount > rateLimit
           THEN /\ hd' = [hd EXCEPT ![t].pc = "Verdict", ![t].analysed = TRUE,
                                    ![t].result = HighRateResult(recentCount, rateLimit)]
                /\ ret' = AnalyzeRet(hd[t].ip, HighRateResult(recentCount, rateLimit),
                                     recentCount, <<>>)
           ELSE /\ hd' = [hd EXCEPT ![t].pc = "AnalyzeQueries", ![t].count = recentCount]
                /\ ret' = [op |-> "GetRecentRequestCount", ip |-> hd[t].ip,
                           duration |-> 1 * Minute, count |-> recentCount]
    /\ UNCHANGED <<now, monitorVars, rateLimit, az, blockerVars, blockDuration,
                   nrec, nticks, nops, wire>>

\* AnalyzeTraffic called by the handler: GetRecentQueries, checks 2 to 4 on the slice
\* it returned, and the return
HandleAnalyzeQueries(t) ==
    /\ ~fatal /\ hd[t].pc = "AnalyzeQueries"
    /\ LET queries == RecentQueries(stats, hd[t].ip, 1 * Minute, now)
           verdict == QueriesVerdict(queries)
           result  == IF verdict.IsAttack THEN verdict
                      ELSE IF checkQueryBurst(queries, now) THEN BurstResult ELSE NoAttack
       IN  /\ hd' = [hd EXCEPT ![t].pc = "Verdict", ![t].analysed = TRUE,
                               ![t].count = 0, ![t].result = result]
           /\ ret' = AnalyzeRet(hd[t].ip, result, hd[t].count, queries)
    /\ UNCHANGED <<now, monitorVars, rateLimit, az, blockerVars, blockDuration,
                   nrec, nticks, nops, wire>>

\* s.forwardRequest(w, r): the exchange with the upstream server fails (err) or not;
\* a failure is answered with SERVFAIL, a success writes nothing to the client
Upstream(err) == IF err THEN ServerFailure ELSE NoReply

\* a handler that blocks on every attack verdict
Mitigation_blocksAttack(result) == IF result.IsAttack THEN "BlockIP" ELSE "none"

\* if detectionResult.IsAttack { if detectionResult.ShouldBlock { BlockIP } else { RateLimitIP } }
Mitigation(result) ==
    IF result.IsAttack
    THEN IF result.ShouldBlock THEN "BlockIP" ELSE "RateLimitIP"
    ELSE "none"

\* the mitigation applied, then sendRefused and return, or s.forwardRequest(w, r)
HandleVerdict(t, err) ==
    /\ ~fatal /\ hd[t].pc = "Verdict"
    /\ IF Mitigation(hd[t].result) = "BlockIP"
       THEN /\ BlockIP(hd[t].ip, hd[t].result.AttackType)
            /\ wire' = Refusal(FALSE, "BlockIP")
       ELSE IF Mitigation(hd[t].result) = "RateLimitIP"
       THEN /\ RateLimitIP(hd[t].ip)
            /\ wire' = Sent(FALSE, "RateLimitIP", TRUE, Upstream(err))
       ELSE /\ wire' = Sent(FALSE, "none", TRUE, Upstream(err))
            /\ ret' = NoRet
            /\ UNCHANGED <<now, monitorVars, rateLimit, az, blockerVars, blockDuration,
                           nrec, nticks, nops>>
    /\ hd' = [hd EXCEPT ![t] = Idle]

-----------------------------------------------------------------------------
(* The traffic monitor under concurrent callers.  Every method runs under  *)
(* tm.mu, RecordRequest and cleanup under the write lock, so the calls of  *)
(* any number of goroutines interleave as atomic steps.                    *)

MonitorBatches == {<<"sub", 100>>}
MonitorTicks == {1 * Second, 30 * Minute}

Next ==
    \/ /\ nrec < MaxRecords
       /\ \E ip \in IPs, q \in QTypes : RecordRequest(ip, ExampleCom, q)
       /\ UNCHANGED <<serverVars, sweepVars>>
    \/ /\ nrec < MaxRecords
       /\ \E ip \in IPs, b \in MonitorBatches : RecordBatch(ip, b[1], b[2])
       /\ UNCHANGED <<serverVars, sweepVars>>
    \/ cleanup /\ UNCHANGED <<serverVars, sweepVars>>
    \/ /\ nticks < MaxTicks
       /\ \E d \in MonitorTicks : Tick(d)
       /\ UNCHANGED <<serverVars, sweepVars>>

Spec == Init /\ [][Next]_vars

(* The window queries over short histories. *)

WindowTicks == {10 * Second, 50 * Second}

NextWindow ==
    \/ /\ nrec < MaxSingles
       /\ \E ip \in IPs, q \in QTypes : RecordRequest(ip, ExampleCom, q)
       /\ UNCHANGED <<serverVars, sweepVars>>
    \/ (\E ip \in IPs, d \in Durations : GetRecentRequestCount(ip, d)) /\ UNCHANGED <<serverVars, sweepVars>>
    \/ (\E ip \in IPs, d \in Durations : GetRecentQueries(ip, d)) /\ UNCHANGED <<serverVars, sweepVars>>
    \/ /\ nticks < MaxWindowTicks
       /\ \E d \in WindowTicks : Tick(d)
       /\ UNCHANGED <<serverVars, sweepVars>>

SpecWindow == Init /\ [][NextWindow]_vars

(* The detector over the histories the client loops produce.  The server   *)
(* runs one handler goroutine per request, so recordings and clock steps   *)
(* fall between the steps of an AnalyzeTraffic call.                       *)

DetectorBatches == {<<"same", 15>>, <<"same", 16>>, <<"same", 150>>,
                    <<"rot", 20>>, <<"rot", 51>>,
                    <<"sub", 20>>, <<"sub", 21>>, <<"sub", 30>>,
                    <<"rnd", 10>>, <<"rnd", 11>>, <<"odd", 15>>}
DetectorTicks == {10 * Second, 1 * Minute}
Attacker == "192.168.1.100"

NextDetector ==
    \/ /\ nrec + nticks < MaxSteps
       /\ \E b \in DetectorBatches : RecordBatch(Attacker, b[1], b[2])
       /\ UNCHANGED <<serverVars, sweepVars>>
    \/ /\ nrec + nticks < MaxSteps
       /\ \E d \in DetectorTicks : Tick(d)
       /\ UNCHANGED <<serverVars, sweepVars>>
    \/ (\E ip \in IPs : AnalyzeCount(ip)) /\ UNCHANGED <<serverVars, sweepVars>>
    \/ AnalyzeQueries /\ UNCHANGED <<serverVars, sweepVars>>
    \/ AnalyzeBurst /\ UNCHANGED <<serverVars, sweepVars>>

SpecDetector == Init /\ [][NextDetector]_vars

(* The mitigation store under two request goroutines, the manual override  *)
(* and the cleanup ticker.                                                 *)

BlockerTicks == {1 * Second, 29 * Second, 299 * Second}

NextBlocker ==
    \/ (\E t \in Threads, ip \in IPs : IsBlocked(t, ip)) /\ UNCHANGED <<serverVars, sweepVars>>
    \/ (\E t \in Threads : IsBlockedDelete(t)) /\ UNCHANGED <<serverVars, sweepVars>>
    \/ (\E t \in Threads, ip \in IPs : IsRateLimited(t, ip)) /\ UNCHANGED <<serverVars, sweepVars>>
    \/ (\E t \in Threads : IsRateLimitedDelete(t)) /\ UNCHANGED <<serverVars, sweepVars>>
    \/ /\ nops + nticks < MaxBlockerSteps
       /\ \E ip \in IPs, reason \in Reasons : BlockIP(ip, reason)
       /\ UNCHANGED <<serverVars, sweepVars>>
    \/ /\ nops + nticks < MaxBlockerSteps
       /\ \E ip \in IPs : RateLimitIP(ip)
       /\ UNCHANGED <<serverVars, sweepVars>>
    \/ /\ nops + nticks < MaxBlockerSteps
       /\ \E ip \in IPs : UnblockIP(ip)
       /\ UNCHANGED <<serverVars, sweepVars>>
    \/ IPBlocker_cleanup /\ UNCHANGED <<serverVars, sweepVars>>
    \/ /\ nops + nticks < MaxBlockerSteps
       /\ ~fatal
       /\ \E d \in BlockerTicks : Tick(d)
       /\ UNCHANGED <<serverVars, sweepVars>>

SpecBlocker == Init /\ [][NextBlocker]_vars

(* The server: two request goroutines over the three shared components,    *)
(* serving the requests of one source, started with the strictest rate     *)
(* limit so that a few requests are enough for a verdict.                  *)

ServerRateLimits == {1}
ServerSources == {Attacker}
ServerTicks == {30 * Second, 300 * Second}

\* the requests in flight that carry a question and have not been recorded
Unrecorded == Cardinality({t \in Threads : hd[t] # Idle /\ hd[t].question /\ ~hd[t].recorded})

InitServer == Constructed(ServerRateLimits)

NextServer ==
    \/ /\ \E t \in Threads, ip \in ServerSources, question \in BOOLEAN :
             /\ question => nrec + Unrecorded < MaxRequests
             /\ HandleIsBlocked(t, ip, ExampleCom, question)
       /\ UNCHANGED sweepVars
    \/ (\E t \in Threads : HandleIsBlockedDelete(t)) /\ UNCHANGED sweepVars
    \/ (\E t \in Threads : HandleIsRateLimited(t)) /\ UNCHANGED sweepVars
    \/ (\E t \in Threads : HandleIsRateLimitedDelete(t)) /\ UNCHANGED sweepVars
    \/ (\E t \in Threads : HandleSleep(t)) /\ UNCHANGED sweepVars
    \/ (\E t \in Threads : HandleRecord(t)) /\ UNCHANGED sweepVars
    \/ (\E t \in Threads : HandleAnalyzeCount(t)) /\ UNCHANGED sweepVars
    \/ (\E t \in Threads : HandleAnalyzeQueries(t)) /\ UNCHANGED sweepVars
    \/ (\E t \in Threads, err \in BOOLEAN : HandleVerdict(t, err)) /\ UNCHANGED sweepVars
    \/ /\ nticks < MaxServerTicks
       /\ ~fatal
       /\ \E d \in ServerTicks : Tick(d)
       /\ UNCHANGED <<serverVars, sweepVars>>

SpecServer == InitServer /\ [][NextServer]_vars

(* The server handling the requests of its one source strictly one after   *)
(* the other: a handleDNSRequest call starts only when no other is in      *)
(* progress.  The blocker's sweep runs in between and the clock moves; no  *)
(* one but the handler calls BlockIP or UnblockIP.                         *)

\* no handleDNSRequest call is in progress
NoHandler == \A t \in Threads : hd[t] = Idle

NextSequential ==
    \/ /\ NoHandler
       /\ \E t \in Threads, ip \in ServerSources, question \in BOOLEAN :
             /\ question => nrec < MaxSequentialRequests
             /\ HandleIsBlocked(t, ip, ExampleCom, question)
       /\ UNCHANGED sweepVars
    \/ (\E t \in Threads : HandleIsBlockedDelete(t)) /\ UNCHANGED sweepVars
    \/ (\E t \in Threads : HandleIsRateLimited(t)) /\ UNCHANGED sweepVars
    \/ (\E t \in Threads : HandleIsRateLimitedDelete(t)) /\ UNCHANGED sweepVars
    \/ (\E t \in Threads : HandleSleep(t)) /\ UNCHANGED sweepVars
    \/ (\E t \in Threads : HandleRecord(t)) /\ UNCHANGED sweepVars
    \/ (\E t \in Threads : HandleAnalyzeCount(t)) /\ UNCHANGED sweepVars
    \/ (\E t \in Threads : HandleAnalyzeQueries(t)) /\ UNCHANGED sweepVars
    \/ (\E t \in Threads, err \in BOOLEAN : HandleVerdict(t, err)) /\ UNCHANGED sweepVars
    \/ IPBlocker_cleanup /\ UNCHANGED <<serverVars, sweepVars>>
    \/ /\ nticks < MaxSequentialTicks
       /\ ~fatal
       /\ \E d \in ServerTicks : Tick(d)
       /\ UNCHANGED <<serverVars, sweepVars>>

SpecSequential == InitServer /\ [][NextSequential]_vars

(* The lookups of the monitor and of the blocker, made for any source by   *)
(* two goroutines, while only the source Attacker is ever recorded,        *)
(* blocked or rate-limited: the other source, Stranger, stays unknown to   *)
(* both components.                                                        *)

Stranger == "192.168.1.101"
UnknownTicks == {30 * Second, 300 * Second}

NextUnknown ==
    \/ /\ nrec + nops + nticks < MaxUnknownSteps
       /\ ~fatal
       /\ RecordRequest(Attacker, ExampleCom, "A")
       /\ UNCHANGED <<serverVars, sweepVars>>
    \/ /\ nrec + nops + nticks < MaxUnknownSteps
       /\ \E reason \in Reasons : BlockIP(Attacker, reason)
       /\ UNCHANGED <<serverVars, sweepVars>>
    \/ /\ nrec + nops + nticks < MaxUnknownSteps
       /\ RateLimitIP(Attacker)
       /\ UNCHANGED <<serverVars, sweepVars>>
    \/ /\ ~fatal
       /\ \E ip \in IPs : GetRecentRequestCount(ip, 1 * Minute)
       /\ UNCHANGED <<serverVars, sweepVars>>
    \/ /\ ~fatal
       /\ \E ip \in IPs : GetRecentQueries(ip, 1 * Minute)
       /\ UNCHANGED <<serverVars, sweepVars>>
    \/ (\E t \in Threads, ip \in IPs : IsBlocked(t, ip)) /\ UNCHANGED <<serverVars, sweepVars>>
    \/ (\E t \in Threads : IsBlockedDelete(t)) /\ UNCHANGED <<serverVars, sweepVars>>
    \/ (\E t \in Threads, ip \in IPs : IsRateLimited(t, ip)) /\ UNCHANGED <<serverVars, sweepVars>>
    \/ (\E t \in Threads : IsRateLimitedDelete(t)) /\ UNCHANGED <<serverVars, sweepVars>>
    \/ /\ nrec + nops + nticks < MaxUnknownSteps
       /\ ~fatal
       /\ \E d \in UnknownTicks : Tick(d)
       /\ UNCHANGED <<serverVars, sweepVars>>

SpecUnknown == Init /\ [][NextUnknown]_vars

(* Every operation that takes a source, called for either of two sources   *)
(* in any order, the lookups of the blocker by two goroutines; the         *)
(* detector has the strictest rate limit, so that two requests of a source *)
(* make its first check fire.                                              *)

IsolationTicks == {31 * Second, 301 * Second}

NextIsolation ==
    \/ /\ nrec + nops + nticks < MaxIsolationSteps
       /\ ~fatal
       /\ \E ip \in IPs : RecordRequest(ip, ExampleCom, "A")
       /\ UNCHANGED <<serverVars, sweepVars>>
    \/ /\ ~fatal
       /\ \E ip \in IPs : GetRecentRequestCount(ip, 1 * Minute)
       /\ UNCHANGED <<serverVars, sweepVars>>
    \/ /\ ~fatal
       /\ \E ip \in IPs : GetRecentQueries(ip, 1 * Minute)
       /\ UNCHANGED <<serverVars, sweepVars>>
    \/ /\ ~fatal
       /\ \E ip \in IPs : AnalyzeCount(ip)
       /\ UNCHANGED <<serverVars, sweepVars>>
    \/ ~fatal /\ AnalyzeQueries /\ UNCHANGED <<serverVars, sweepVars>>
    \/ ~fatal /\ AnalyzeBurst /\ UNCHANGED <<serverVars, sweepVars>>
    \/ (\E t \in Threads, ip \in IPs : IsBlocked(t, ip)) /\ UNCHANGED <<serverVars, sweepVars>>
    \/ (\E t \in Threads : IsBlockedDelete(t)) /\ UNCHANGED <<serverVars, sweepVars>>
    \/ (\E t \in Threads, ip \in IPs : IsRateLimited(t, ip)) /\ UNCHANGED <<serverVars, sweepVars>>
    \/ (\E t \in Threads : IsRateLimitedDelete(t)) /\ UNCHANGED <<serverVars, sweepVars>>
    \/ /\ nrec + nops + nticks < MaxIsolationSteps
       /\ \E ip \in IPs : BlockIP(ip, "test")
       /\ UNCHANGED <<serverVars, sweepVars>>
    \/ /\ nrec + nops + nticks < MaxIsolationSteps
       /\ \E ip \in IPs : RateLimitIP(ip)
       /\ UNCHANGED <<serverVars, sweepVars>>
    \/ /\ nrec + nops + nticks < MaxIsolationSteps
       /\ \E ip \in IPs : UnblockIP(ip)
       /\ UNCHANGED <<serverVars, sweepVars>>
    \/ /\ nrec + nops + nticks < MaxIsolationSteps
       /\ ~fatal
       /\ \E d \in IsolationTicks : Tick(d)
       /\ UNCHANGED <<serverVars, sweepVars>>

SpecIsolation == InitServer /\ [][NextIsolation]_vars

(* A caller that keeps the slice GetRecentQueries returned to it: the      *)
(* AnalyzeTraffic call, between its checks 3 and 4, while the source goes  *)
(* on being recorded, past the cap of 100 queries, and the retention sweep *)
(* runs.  recent is built by make and append of QueryInfo values, a slice  *)
(* of its own, which the model holds as a value.                           *)

HeldBatches == {<<"rot", 60>>}
HeldTicks == {1 * Second, 31 * Minute}

NextHeld ==
    \/ /\ nrec + nticks < MaxHeldSteps
       /\ \E b \in HeldBatches : RecordBatch(Attacker, b[1], b[2])
       /\ UNCHANGED <<serverVars, sweepVars>>
    \/ /\ nrec + nticks < MaxHeldSteps
       /\ \E d \in HeldTicks : Tick(d)
       /\ UNCHANGED <<serverVars, sweepVars>>
    \/ cleanup /\ UNCHANGED <<serverVars, sweepVars>>
    \/ AnalyzeCount(Attacker) /\ UNCHANGED <<serverVars, sweepVars>>
    \/ AnalyzeQueries /\ UNCHANGED <<serverVars, sweepVars>>
    \/ AnalyzeBurst /\ UNCHANGED <<serverVars, sweepVars>>

SpecHeld == Init /\ [][NextHeld]_vars

(* The mitigation store with its sweeper running: IPBlocker.StartCleanup   *)
(* calls cleanup at every tick of its one-minute ticker for as long as the *)
(* process lives, and the clock goes on.  The store serves one source.     *)
(* The clock makes a bounded number of steps, the last of them longer than *)
(* the block duration, and nothing is written after the last one, so that  *)
(* every entry made has its expiry ahead of it in the run.                 *)

ShortTick == 31 * Second
LongTick == 301 * Second

SweepLookups ==
    \/ (\E t \in Threads : IsBlocked(t, Attacker)) /\ UNCHANGED <<serverVars, sweepVars>>
    \/ (\E t \in Threads : IsRateLimited(t, Attacker)) /\ UNCHANGED <<serverVars, sweepVars>>

SweepDeletes(t) ==
    \/ IsBlockedDelete(t) /\ UNCHANGED <<serverVars, sweepVars>>
    \/ IsRateLimitedDelete(t) /\ UNCHANGED <<serverVars, sweepVars>>

SweepWrites ==
    /\ nops < MaxSweepOps /\ nticks < MaxSweepTicks
    /\ \/ BlockIP(Attacker, "test")
       \/ RateLimitIP(Attacker)
       \/ UnblockIP(Attacker)
    /\ UNCHANGED <<serverVars, sweepVars>>

SweepShortTick ==
    /\ nticks + 1 < MaxSweepTicks /\ ~fatal
    /\ Tick(ShortTick)
    /\ UNCHANGED <<serverVars, sweepVars>>

SweepLongTick ==
    /\ nticks < MaxSweepTicks /\ ~fatal
    /\ Tick(LongTick)
    /\ UNCHANGED <<serverVars, sweepVars>>

SweepRuns == IPBlocker_cleanup /\ UNCHANGED <<serverVars, sweepVars>>

NextSweep ==
    \/ SweepLookups
    \/ \E t \in Threads : SweepDeletes(t)
    \/ SweepWrites
    \/ SweepShortTick
    \/ SweepLongTick
    \/ SweepRuns

\* the clock goes on, the sweeper runs cleanup whenever it can, and a lookup that has
\* reached its delete performs it
LiveSweep ==
    /\ InitServer /\ [][NextSweep]_vars
    /\ WF_vars(SweepLongTick)
    /\ WF_vars(SweepRuns)
    /\ \A t \in Threads : WF_vars(SweepDeletes(t))

(* main from the start of the two StartCleanup goroutines to their end:    *)
(* the goroutines sweep at the ticks of their tickers while requests of    *)
(* one source are recorded, blocked and looked up, and at some point main  *)
(* cancels the context.  A caller takes a store's lock only when the       *)
(* sweeper does not hold it, and sync.RWMutex lets no new reader in while  *)
(* the sweeper waits in Lock.                                              *)

ShutdownTicks == {31 * Minute}

ShutdownLookup(t) ==
    /\ ~mu["b"] /\ sweeper["b"] # "Lock"
    /\ IsBlocked(t, Attacker)
    /\ UNCHANGED <<serverVars, sweepVars>>

ShutdownDelete(t) == IsBlockedDelete(t) /\ UNCHANGED <<serverVars, sweepVars>>

ShutdownRecord ==
    /\ nrec + nops + nticks < MaxShutdownSteps
    /\ ~fatal /\ ~mu["tm"]
    /\ RecordRequest(Attacker, ExampleCom, "A")
    /\ UNCHANGED <<serverVars, sweepVars>>

ShutdownBlock ==
    /\ nrec + nops + nticks < MaxShutdownSteps
    /\ ~mu["b"]
    /\ BlockIP(Attacker, "test")
    /\ UNCHANGED <<serverVars, sweepVars>>

ShutdownTick ==
    /\ nrec + nops + nticks < MaxShutdownSteps
    /\ ~fatal
    /\ \E d \in ShutdownTicks : Tick(d)
    /\ UNCHANGED <<serverVars, sweepVars>>

NextShutdown ==
    \/ \E t \in Threads : ShutdownLookup(t)
    \/ \E t \in Threads : ShutdownDelete(t)
    \/ ShutdownRecord
    \/ ShutdownBlock
    \/ ShutdownTick
    \/ \E k \in Sweepers : TickerFires(k)
    \/ \E k \in Sweepers : SweeperReceive(k)
    \/ \E k \in Sweepers : SweeperLock(k)
    \/ \E k \in Sweepers : SweeperCleanup(k)
    \/ \E k \in Sweepers : SweeperStop(k)
    \/ Cancel

\* every goroutine that can take a step takes one; a select whose case <-ctx.Done()
\* is ready again and again takes it in the end, Go choosing at random among the
\* ready cases
LiveShutdown ==
    /\ InitServer /\ [][NextShutdown]_vars
    /\ \A t \in Threads : WF_vars(ShutdownDelete(t))
    /\ \A k \in Sweepers :
          /\ WF_vars(SweeperLock(k))
          /\ WF_vars(SweeperCleanup(k))
          /\ SF_vars(SweeperStop(k))

-----------------------------------------------------------------------------
(* Claims about the traffic monitor. *)

LastN(s, n) == IF Len(s) <= n THEN s ELSE SubSeq(s, Len(s) - n + 1, Len(s))

QueriesOf(ip) == IF ip \in DOMAIN stats THEN stats[ip].Queries ELSE <<>>

\* C1 (cap invariant): whatever calls of RecordRequest the callers have made, every
\* source keeps at most 100 queries, and they are exactly the last 100 recorded (all of
\* them while fewer), in the order of recording.
C1_CapInvariant ==
    \A ip \in IPs :
        /\ Len(QueriesOf(ip)) <= QueryCap
        /\ QueriesOf(ip) = LastN(history[ip], QueryCap)

\* a source that recorded more than 100 queries and lost the oldest of them
C1_Evicted ==
    \E ip \in IPs :
        /\ Len(history[ip]) > QueryCap
        /\ Len(QueriesOf(ip)) = QueryCap
        /\ history[ip][1] \notin Range(QueriesOf(ip))

InClosedWindow(q, w) == now - w <= q.Timestamp /\ q.Timestamp <= now
InHalfOpenWindow(q, w) == now - w < q.Timestamp /\ q.Timestamp <= now

\* C3 as stated: the count and the returned queries are those of the closed interval
\* [now - w, now], an event stamped exactly now - w included.
C3_WindowClosed ==
    /\ ret.op = "GetRecentRequestCount" =>
           ret.count = Cardinality({i \in 1..Len(QueriesOf(ret.ip)) :
                                       InClosedWindow(QueriesOf(ret.ip)[i], ret.duration)})
    /\ ret.op = "GetRecentQueries" =>
           ret.queries = SelectSeq(QueriesOf(ret.ip), LAMBDA q : InClosedWindow(q, ret.duration))

\* C3 (window correctness, amended): the count is the number of the source's stored
\* events stamped in the half-open interval (now - w, now], and the returned queries are
\* exactly those events, in stored order; an event stamped exactly now - w is left out.
C3_WindowHalfOpen ==
    /\ ret.op = "GetRecentRequestCount" =>
           ret.count = Cardinality({i \in 1..Len(QueriesOf(ret.ip)) :
                                       InHalfOpenWindow(QueriesOf(ret.ip)[i], ret.duration)})
    /\ ret.op = "GetRecentQueries" =>
           /\ ret.queries = SelectSeq(QueriesOf(ret.ip), LAMBDA q : InHalfOpenWindow(q, ret.duration))
           /\ \A i \in 1..Len(QueriesOf(ret.ip)) :
                  QueriesOf(ret.ip)[i].Timestamp = now - ret.duration
                      => QueriesOf(ret.ip)[i] \notin Range(ret.queries)

\* a count taken over a window of a minute while an event is exactly one minute old,
\* beside events that are younger
C3_BoundaryEvent ==
    /\ ret.op = "GetRecentRequestCount"
    /\ ret.duration = 1 * Minute
    /\ ret.count > 0
    /\ \E i \in 1..Len(QueriesOf(ret.ip)) : QueriesOf(ret.ip)[i].Timestamp = now - ret.duration

-----------------------------------------------------------------------------
(* Claims about the detector.  A return of AnalyzeTraffic is a state with  *)
(* ret.op = "AnalyzeTraffic": ret.count is what GetRecentRequestCount gave *)
(* the call and ret.queries what GetRecentQueries gave it (empty when the  *)
(* call returned at check 1, before asking).                               *)

Returned == ret.op = "AnalyzeTraffic"

\* the stored events of ip that lie in the last minute, now
LastMinute(ip) == SelectSeq(QueriesOf(ip), LAMBDA q : InHalfOpenWindow(q, 1 * Minute))

Occurrences(q, name) == Cardinality({i \in 1..Len(q) : q[i].Domain = name})

\* some single name is more than half of the events and occurs more than 10 times
MajorityName(q) ==
    \E name \in {q[i].Domain : i \in 1..Len(q)} :
        2 * Occurrences(q, name) > Len(q) /\ Occurrences(q, name) > 10

Labels(name) == Split(name)
BaseOf(name) == Join(SubSeq(Labels(name), Len(Labels(name)) - 1, Len(Labels(name))))
PrefixOf(name) == Join(SubSeq(Labels(name), 1, Len(Labels(name)) - 2))

\* the distinct non-empty subdomain prefixes seen under a two-label base domain
Prefixes(q, base) ==
    {PrefixOf(q[i].Domain) :
        i \in {j \in 1..Len(q) : /\ Len(Labels(q[j].Domain)) >= 2
                                 /\ BaseOf(q[j].Domain) = base
                                 /\ PrefixOf(q[j].Domain) # <<>>}}

\* at least 8 characters, more than half of them decimal digits
LooksRandom(p) == Len(p) >= 8 /\ 2 * Cardinality({i \in 1..Len(p) : p[i] \in Digit}) > Len(p)

ManySubdomains(q) ==
    \E base \in {BaseOf(q[i].Domain) : i \in {j \in 1..Len(q) : Len(Labels(q[j].Domain)) >= 2}} :
        \/ Cardinality(Prefixes(q, base)) > 20
        \/ Cardinality({p \in Prefixes(q, base) : LooksRandom(p)}) > 10

RepeatedCond(q) == Len(q) >= 20 /\ MajorityName(q)
RandomCond(q) == Len(q) >= 30 /\ ManySubdomains(q)
BurstCond(q, t) ==
    Len(q) >= 10 /\ Cardinality({i \in 1..Len(q) : q[i].Timestamp > t - 10 * Second}) > 50

\* C2 (scenario A) as stated: after 150 record calls for one source within one minute,
\* with the threshold at 100, analyze returns an attack of kind high_request_rate that
\* should be blocked.
C2_ScenarioA ==
    ( /\ Returned
      /\ rateLimit = 100
      /\ Len(history[ret.ip]) = 150
      /\ \A i \in 1..150 : InHalfOpenWindow(history[ret.ip][i], 1 * Minute) )
    => /\ ret.result.IsAttack
       /\ ret.result.AttackType = "high_request_rate"
       /\ ret.result.ShouldBlock

\* C7 (priority order): the kind a call returns is the first, in the order high rate,
\* repeated queries, random subdomain, burst, whose condition holds of what the call
\* read; a later signature is reported only when no earlier one holds.
C7_Priority ==
    Returned =>
        ret.result.AttackType =
            IF ret.count > rateLimit THEN "high_request_rate"
            ELSE IF RepeatedCond(ret.queries) THEN "repeated_queries"
            ELSE IF RandomCond(ret.queries) THEN "random_subdomain"
            ELSE IF BurstCond(ret.queries, now) THEN "query_burst"
            ELSE ""

\* a history that is both a repeated-query flood and a burst, reported as repeated
\* queries and to be blocked
C7_RepeatedAndBurst ==
    /\ Returned
    /\ RepeatedCond(ret.queries)
    /\ BurstCond(ret.queries, now)
    /\ ret.result.AttackType = "repeated_queries"
    /\ ret.result.ShouldBlock

C9_Repeated ==
    ( /\ Returned
      /\ ret.result.AttackType # "high_request_rate"
      /\ Len(ret.queries) >= 20 )
    => /\ ret.result.AttackType = "repeated_queries" <=> MajorityName(ret.queries)
       /\ ret.result.AttackType = "repeated_queries" =>
              /\ ret.result.IsAttack
              /\ ret.result.Severity = "medium"
              /\ ret.result.ShouldBlock

\* scenario B: 30 recorded calls, all for the same name, all within the minute
C9_ScenarioB ==
    /\ Returned
    /\ Len(history[ret.ip]) = 30
    /\ Len(ret.queries) = 30
    /\ \A i \in 1..30 : ret.queries[i].Domain = ret.queries[1].Domain
    /\ ret.result.AttackType = "repeated_queries"
    /\ ret.result.ShouldBlock

\* C10 (random-subdomain signature): when neither the high-rate nor the repeated-query
\* signature matched and the call read at least 30 events of the last minute, it
\* returns random_subdomain exactly when some two-label base domain has more than 20
\* distinct non-empty subdomain prefixes or more than 10 distinct prefixes that look
\* random, and then with severity high and should_block; a name of fewer than two
\* labels, or one that is only a base domain, adds no prefix.
C10_RandomSubdomain ==
    ( /\ Returned
      /\ ret.result.AttackType \notin {"high_request_rate", "repeated_queries"}
      /\ Len(ret.queries) >= 30 )
    => /\ ret.result.AttackType = "random_subdomain" <=> ManySubdomains(ret.queries)
       /\ ret.result.AttackType = "random_subdomain" =>
              /\ ret.result.IsAttack
              /\ ret.result.Severity = "high"
              /\ ret.result.ShouldBlock

\* scenario C: 30 recorded calls, each for another subdomain of the same base domain
C10_ScenarioC ==
    /\ Returned
    /\ Len(history[ret.ip]) = 30
    /\ Len(ret.queries) = 30
    /\ Cardinality(Prefixes(ret.queries, ExampleCom)) = 30
    /\ ret.result.AttackType = "random_subdomain"

\* the events the call read that are less than 10 seconds old when it returns
Trailing10(q) == {i \in 1..Len(q) : now - q[i].Timestamp < 10 * Second}

\* C11 (burst signature): when none of high_request_rate, repeated_queries and
\* random_subdomain matched and the call read at least 10 events of the last minute,
\* it returns query_burst exactly when more than 50 of those events are less than 10
\* seconds old, and then with severity medium and should_block false; a burst verdict
\* never has should_block true.
C11_Burst ==
    /\ ( /\ Returned
         /\ ret.result.AttackType \notin {"high_request_rate", "repeated_queries",
                                          "random_subdomain"}
         /\ Len(ret.queries) >= 10 )
       => /\ ret.result.AttackType = "query_burst"
                <=> Cardinality(Trailing10(ret.queries)) > 50
          /\ ret.result.AttackType = "query_burst" =>
                 /\ ret.result.IsAttack
                 /\ ret.result.Severity = "medium"
    /\ (Returned /\ ret.result.AttackType = "query_burst") => ~ret.result.ShouldBlock

\* 51 events over four names within 10 seconds, reported as a burst and not to be blocked
C11_BurstOnly ==
    /\ Returned
    /\ Cardinality(Trailing10(ret.queries)) = 51
    /\ ~RepeatedCond(ret.queries) /\ ~RandomCond(ret.queries)
    /\ ret.result.AttackType = "query_burst"
    /\ ~ret.result.ShouldBlock

\* the history is n events going round the four names of the normal-traffic test
SpreadEvenly(q, n) ==
    /\ Len(q) = n
    /\ \A i \in 1..n : q[i].Domain = NormalDomains[((i - 1) % 4) + 1]

\* C12 (no attack): when none of the four conditions holds of what the call read, it
\* returns is_attack false, no attack kind and should_block false; so it does, with
\* the threshold at 100, for 20 events spread evenly over 4 names, and for a source
\* that has no record.
C12_NoAttack ==
    /\ ( /\ Returned
         /\ ~(ret.count > rateLimit)
         /\ ~RepeatedCond(ret.queries)
         /\ ~RandomCond(ret.queries)
         /\ ~BurstCond(ret.queries, now) )
       => /\ ~ret.result.IsAttack
          /\ ret.result.AttackType = ""
          /\ ~ret.result.ShouldBlock
    /\ ( /\ Returned
         /\ rateLimit = 100
         /\ SpreadEvenly(history[ret.ip], 20)
         /\ ret.count = 20 )
       => ~ret.result.IsAttack
    /\ (Returned /\ Len(history[ret.ip]) = 0) => ~ret.result.IsAttack

\* scenario D: 20 recorded calls going round 4 names, threshold 100, no attack found
C12_ScenarioD ==
    /\ Returned
    /\ rateLimit = 100
    /\ SpreadEvenly(history[ret.ip], 20)
    /\ SpreadEvenly(ret.queries, 20)
    /\ ~ret.result.IsAttack
    /\ ret.result.AttackType = ""

-----------------------------------------------------------------------------
(* Claims about the mitigation store, checked under SpecBlocker. *)

\* the step completes a call of IsBlocked, whose result is ret'
IsBlockedReturns == ret'.op = "IsBlocked"

(* C4: IsBlocked(s) returns true if and only if a block entry for s exists *)
(* and now is before its BlockUntil; when it returns false for an entry    *)
(* that exists and has expired, the entry is gone from the store once the  *)
(* call has returned.  With block duration 300 this makes a block taken at *)
(* t0 answer true at t0+299 and false, with the entry purged, at t0+301.   *)
C4_IsBlocked ==
    [][IsBlockedReturns =>
          LET s == ret'.ip
              active == s \in DOMAIN blockedIPs /\ now < blockedIPs[s].BlockUntil
          IN  /\ ret'.val <=> active
              /\ ~ret'.val => s \notin DOMAIN blockedIPs'
              /\ (ret'.exists /\ now <= ret'.blocked.BlockedAt + 299 * Second
                   /\ ret'.blocked.BlockCount = 1) => ret'.val
              /\ (ret'.exists /\ now >= ret'.blocked.BlockedAt + 301 * Second
                   /\ ret'.blocked.BlockCount = 1) => ~ret'.val
      ]_vars

\* Scenario E: a block taken with reason "test" and duration 300 is found
\* expired 301 seconds later, IsBlocked has answered false and purged it
C4_ScenarioE ==
    /\ ret.op = "IsBlocked" /\ ~ret.val /\ ret.exists
    /\ ret.blocked.Reason = "test"
    /\ blockDuration = 300
    /\ ret.blocked.BlockUntil = ret.blocked.BlockedAt + 300 * Second
    /\ now = ret.blocked.BlockedAt + 301 * Second
    /\ ret.ip \notin DOMAIN blockedIPs

\* the step completes a call of BlockIP
BlockIPReturns == ret'.op = "BlockIP"

(* C5: escalation monotonicity.  Every BlockIP(s) that finds the entry of  *)
(* s not yet expired leaves it with a strictly larger BlockCount and a     *)
(* BlockUntil that is not earlier, whatever IsBlocked, IsRateLimited,      *)
(* RateLimitIP and cleanup calls were interleaved before it.               *)
C5_Escalation ==
    [][(/\ BlockIPReturns
        /\ ret'.ip \in DOMAIN blockedIPs
        /\ now < blockedIPs[ret'.ip].BlockUntil)
       => /\ ret'.ip \in DOMAIN blockedIPs'
          /\ blockedIPs'[ret'.ip].BlockCount > blockedIPs[ret'.ip].BlockCount
          /\ blockedIPs'[ret'.ip].BlockUntil >= blockedIPs[ret'.ip].BlockUntil
      ]_vars

\* an entry escalated twice before expiry, the last time after the clock moved
C5_EscalatedTwice ==
    /\ ret.op = "BlockIP"
    /\ ret.ip \in DOMAIN blockedIPs
    /\ blockedIPs[ret.ip].BlockCount = 3
    /\ blockedIPs[ret.ip].BlockedAt < now
    /\ blockedIPs[ret.ip].BlockUntil = now + blockDuration * Second
    /\ now < blockedIPs[ret.ip].BlockedAt + blockDuration * Second

\* the step completes a call of UnblockIP
UnblockIPReturns == ret'.op = "UnblockIP"

\* the step follows a completed UnblockIP(s) with the call op for the same s
AfterUnblock(op) == ret.op = "UnblockIP" /\ ret'.op = op /\ ret'.ip = ret.ip

(* C6: idempotent unblock.  Whatever the entries of s were, UnblockIP(s)   *)
(* leaves s with neither a block entry nor a rate-limit entry; IsBlocked(s)*)
(* and IsRateLimited(s) called next answer false; and a second UnblockIP(s)*)
(* called next changes nothing in the store.                               *)
C6_UnblockIdempotent ==
    [][/\ UnblockIPReturns =>
             /\ ret'.ip \notin DOMAIN blockedIPs'
             /\ ret'.ip \notin DOMAIN rateLimitedIPs'
       /\ (AfterUnblock("IsBlocked") \/ AfterUnblock("IsRateLimited")) => ~ret'.val
       /\ AfterUnblock("UnblockIP") =>
             /\ blockedIPs' = blockedIPs
             /\ rateLimitedIPs' = rateLimitedIPs
      ]_vars

\* UnblockIP has just removed a block entry and a rate-limit entry of one source,
\* some time after they were made
C6_UnblockedBoth ==
    /\ ret.op = "UnblockIP"
    /\ ret.hadBlock /\ ret.hadLimit
    /\ ret.ip \notin DOMAIN blockedIPs
    /\ ret.ip \notin DOMAIN rateLimitedIPs
    /\ now > 0

(* C13: frame of BlockIP.  On a source without a block entry it makes one   *)
(* with BlockedAt = now, BlockUntil = now + blockDuration and BlockCount 1; *)
(* on a source that has one, expired or not, it sets BlockUntil to now +    *)
(* blockDuration and adds exactly 1 to BlockCount, BlockedAt staying as it  *)
(* was.  The entries of the other sources are not touched.                  *)
C13_BlockFrame ==
    [][BlockIPReturns =>
          LET s == ret'.ip
          IN  /\ s \in DOMAIN blockedIPs'
              /\ blockedIPs'[s].IP = s
              /\ blockedIPs'[s].BlockUntil = now + blockDuration * Second
              /\ IF s \in DOMAIN blockedIPs
                 THEN /\ blockedIPs'[s].BlockCount = blockedIPs[s].BlockCount + 1
                      /\ blockedIPs'[s].BlockedAt = blockedIPs[s].BlockedAt
                 ELSE /\ blockedIPs'[s].BlockCount = 1
                      /\ blockedIPs'[s].BlockedAt = now
              /\ DOMAIN blockedIPs' = DOMAIN blockedIPs \cup {s}
              /\ \A k \in DOMAIN blockedIPs \ {s} : blockedIPs'[k] = blockedIPs[k]
              /\ rateLimitedIPs' = rateLimitedIPs
      ]_vars

\* BlockIP has just escalated an entry at a later time than the one that made it
C13_Escalated ==
    /\ ret.op = "BlockIP"
    /\ ret.ip \in DOMAIN blockedIPs
    /\ blockedIPs[ret.ip].BlockCount = 2
    /\ blockedIPs[ret.ip].BlockedAt < now
    /\ blockedIPs[ret.ip].BlockUntil = now + blockDuration * Second

\* the step completes a call of RateLimitIP
RateLimitIPReturns == ret'.op = "RateLimitIP"

\* the step completes a call of IsRateLimited, whose result is ret'
IsRateLimitedReturns == ret'.op = "IsRateLimited"

(* C14: RateLimitIP(s) sets the rate-limit entry of s to now + 30 seconds,  *)
(* whatever it was; IsRateLimited(s) returns true if and only if an entry   *)
(* of s exists and now is before it; when it returns false the entry of s   *)
(* is gone from the store once the call has returned.                       *)
C14_RateLimit ==
    [][/\ RateLimitIPReturns =>
             /\ ret'.ip \in DOMAIN rateLimitedIPs'
             /\ rateLimitedIPs'[ret'.ip] = now + 30 * Second
             /\ DOMAIN rateLimitedIPs' = DOMAIN rateLimitedIPs \cup {ret'.ip}
             /\ \A k \in DOMAIN rateLimitedIPs \ {ret'.ip} :
                    rateLimitedIPs'[k] = rateLimitedIPs[k]
       /\ IsRateLimitedReturns =>
             LET s == ret'.ip
                 active == s \in DOMAIN rateLimitedIPs /\ now < rateLimitedIPs[s]
             IN  /\ ret'.val <=> active
                 /\ ~ret'.val => s \notin DOMAIN rateLimitedIPs'
      ]_vars

\* IsRateLimited has found the entry of a source expired, exactly 30 seconds after it
\* was made, answered false and removed it
C14_ExpiredRemoved ==
    /\ ret.op = "IsRateLimited" /\ ~ret.val /\ ret.exists
    /\ ret.limitedUntil = now
    /\ now >= 30 * Second
    /\ ret.ip \notin DOMAIN rateLimitedIPs

\* IPBlocker.cleanup has just returned
SweepReturned == ret.op = "cleanup"

(* C15 as stated: after the sweep of the mitigation store no expired entry  *)
(* is left, neither a block entry with BlockUntil <= now nor a rate-limit   *)
(* entry with limited-until <= now.                                         *)
C15_SweepComplete ==
    SweepReturned =>
        /\ \A k \in DOMAIN blockedIPs : ~(blockedIPs[k].BlockUntil <= now)
        /\ \A k \in DOMAIN rateLimitedIPs : ~(rateLimitedIPs[k] <= now)

\* thread t holds b.mu for reading
HoldsShared(t) == rd[t] # Idle

\* thread t, holding b.mu for reading only, is at a delete from the map named
WritesUnderShared(t, map) ==
    \/ map = "blockedIPs" /\ rd[t].pc = "deleteBlock"
    \/ map = "rateLimitedIPs" /\ rd[t].pc = "deleteLimit"

(* C17 as stated: every modification of the maps of the mitigation store is *)
(* made under the exclusive lock and the readers modify nothing, so that no *)
(* thread holding only the shared lock writes a map, no two threads are in  *)
(* the maps at once with one of them writing, and the runtime never meets   *)
(* a concurrent map access.                                                 *)
C17_LockDiscipline ==
    /\ \A t \in Threads : \A map \in {"blockedIPs", "rateLimitedIPs"} :
           ~WritesUnderShared(t, map)
    /\ \A t \in Threads : \A u \in Threads \ {t} :
           ~(HoldsShared(t) /\ HoldsShared(u)
             /\ \E map \in {"blockedIPs", "rateLimitedIPs"} : WritesUnderShared(t, map))
    /\ ~fatal

-----------------------------------------------------------------------------
(* Claims about the sweep of the traffic monitor, checked under Spec. *)

\* the step completes TrafficMonitor.cleanup
MonitorSweepReturns == ret'.op = "TrafficMonitor.cleanup"

-----------------------------------------------------------------------------
(* Claims about the admission pipeline, checked under SpecServer. *)

\* the step is the return of true by the IsBlocked call of an arriving request
AnsweredBlocked == ret'.op = "IsBlocked" /\ ret'.val

(* C18: a request that arrives while IsBlocked answers true for its source  *)
(* is refused and its handling ends there: nothing is recorded in the       *)
(* monitor, no analysis is made, no BlockIP or RateLimitIP is called, the   *)
(* block and rate-limit entries stay as they were, and the request is not   *)
(* forwarded upstream.                                                      *)
C18_BlockedRefused ==
    [][AnsweredBlocked =>
          /\ wire' = Sent(TRUE, "none", FALSE, Refused)
          /\ hd' = hd
          /\ stats' = stats /\ history' = history /\ nrec' = nrec
          /\ blockedIPs' = blockedIPs /\ rateLimitedIPs' = rateLimitedIPs
          /\ nops' = nops
      ]_vars

\* a request was refused as blocked, after the three requests that led to the block
\* of its source
C18_BlockedRequest ==
    /\ wire.op = "handleDNSRequest" /\ wire.blocked
    /\ ret.op = "IsBlocked" /\ ret.val
    /\ Attacker \in DOMAIN blockedIPs
    /\ Len(history[Attacker]) = 3

\* the step is the return of the call of goroutine t
Completes(t) == hd[t] # Idle /\ hd'[t] = Idle

\* the step is the call of RecordRequest by goroutine t
Records(t) == hd[t] # Idle /\ hd'[t] # Idle /\ ~hd[t].recorded /\ hd'[t].recorded

\* the step is the return of the analysis to goroutine t
Analyses(t) == hd[t] # Idle /\ hd'[t] # Idle /\ ~hd[t].analysed /\ hd'[t].analysed

\* the step is the return of true by the IsRateLimited call of goroutine t
AnsweredLimited(t) ==
    /\ hd[t] # Idle /\ hd[t].pc = "IsRateLimited" /\ hd'[t] # hd[t]
    /\ ret'.op = "IsRateLimited" /\ ret'.val

\* the order of the pipeline: the event of the request is appended to what the
\* monitor holds of the source, the analysis returns only after that, and a request
\* of a rate-limited source is marked as delayed and goes on
RecordThenAnalyse(t) ==
    /\ Records(t) =>
          /\ ~hd[t].analysed
          /\ history'[hd[t].ip] =
                 Append(history[hd[t].ip], QueryInfo(hd[t].domain, "A", now))
          /\ hd[t].ip \in DOMAIN stats'
          /\ stats'[hd[t].ip].Queries = LastN(history'[hd[t].ip], QueryCap)
    /\ Analyses(t) => hd[t].recorded
    /\ AnsweredLimited(t) => hd'[t].delayed /\ hd'[t].pc = "Sleep"

\* what the returning call of goroutine t did for the verdict it was given
MitigatedByVerdict(t) ==
    LET ip == hd[t].ip
        result == hd[t].result
    IN  /\ hd[t].recorded /\ hd[t].analysed
        /\ (result.IsAttack /\ result.ShouldBlock) =>
              /\ ip \in DOMAIN blockedIPs'
              /\ blockedIPs'[ip].BlockUntil = now + blockDuration * Second
              /\ blockedIPs'[ip].Reason = result.AttackType
              /\ rateLimitedIPs' = rateLimitedIPs
              /\ wire' = Sent(FALSE, "BlockIP", FALSE, Refused)
        /\ (result.IsAttack /\ ~result.ShouldBlock) =>
              /\ ip \in DOMAIN rateLimitedIPs'
              /\ rateLimitedIPs'[ip] = now + RateLimitWindow * Second
              /\ blockedIPs' = blockedIPs
              /\ wire'.mitigation = "RateLimitIP" /\ wire'.forwarded
        /\ ~result.IsAttack =>
              /\ blockedIPs' = blockedIPs /\ rateLimitedIPs' = rateLimitedIPs
              /\ wire'.mitigation = "none" /\ wire'.forwarded

\* the returning call of goroutine t refused a message without a question, leaving
\* the monitor and the blocker as they were
RefusedUnrecorded(t) ==
    /\ ~hd[t].recorded /\ ~hd[t].analysed
    /\ wire' = Sent(FALSE, "none", FALSE, Refused)
    /\ stats' = stats /\ history' = history
    /\ blockedIPs' = blockedIPs /\ rateLimitedIPs' = rateLimitedIPs

(* C19 as stated: every request of a source that is not blocked is         *)
(* recorded, then analysed, and then blocked and refused, rate-limited and  *)
(* forwarded, or forwarded with no mitigation entry touched, as its verdict *)
(* says; a request of a rate-limited source is delayed and goes the same    *)
(* way.                                                                     *)
C19_EveryRequest ==
    [][\A t \in Threads :
          /\ RecordThenAnalyse(t)
          /\ Completes(t) => MitigatedByVerdict(t)
      ]_vars

(* C19, amended: every request that carries a question and whose source is  *)
(* not blocked is recorded, then analysed, and then blocked and refused     *)
(* without being forwarded (ShouldBlock), rate-limited and forwarded        *)
(* (attack without ShouldBlock), or forwarded with no mitigation entry      *)
(* created or changed (no attack); a request of a rate-limited source is    *)
(* delayed and goes the same way.  A message without a question is refused  *)
(* after the two lookups, and after the delay if its source is              *)
(* rate-limited, without being recorded, analysed or forwarded.             *)
C19_Pipeline ==
    [][\A t \in Threads :
          /\ RecordThenAnalyse(t)
          /\ (Completes(t) /\ hd[t].question) => MitigatedByVerdict(t)
          /\ (Completes(t) /\ ~hd[t].question) => RefusedUnrecorded(t)
      ]_vars

\* the third request of the source, rate-limited since its second, was recorded,
\* analysed as a high request rate to be blocked, and refused with the source blocked
C19_DelayedThenBlocked ==
    /\ wire = Sent(FALSE, "BlockIP", FALSE, Refused)
    /\ ret = [op |-> "BlockIP", ip |-> Attacker]
    /\ Attacker \in DOMAIN blockedIPs /\ blockedIPs[Attacker].Reason = "high_request_rate"
    /\ Attacker \in DOMAIN rateLimitedIPs /\ now < rateLimitedIPs[Attacker]
    /\ Len(history[Attacker]) = 3

-----------------------------------------------------------------------------
(* Claims about the lookups of an unknown source, checked under SpecUnknown. *)

\* the last call to return was the lookup op made for the source Stranger
LookedUp(op) == ret.op = op /\ ret.ip = Stranger

(* C20: for a source that was never recorded, blocked or rate-limited,      *)
(* GetRecentRequestCount returns 0, GetRecentQueries returns an empty       *)
(* slice, IsBlocked and IsRateLimited return false having found no entry,   *)
(* and after any of these lookups the source still has no record in the     *)
(* monitor, no block entry and no rate-limit entry.                         *)
C20_UnknownSource ==
    /\ LookedUp("GetRecentRequestCount") => ret.count = 0
    /\ LookedUp("GetRecentQueries") => ret.queries = <<>>
    /\ LookedUp("IsBlocked") => ~ret.val /\ ~ret.exists
    /\ LookedUp("IsRateLimited") => ~ret.val /\ ~ret.exists
    /\ Stranger \notin DOMAIN stats
    /\ Stranger \notin DOMAIN blockedIPs
    /\ Stranger \notin DOMAIN rateLimitedIPs
    /\ \A t \in Threads : rd[t] # Idle => rd[t].ip # Stranger

\* the count of the unknown source was asked while the other source had a record
\* with a recent event, a block entry and a rate-limit entry
C20_StrangerAsked ==
    /\ LookedUp("GetRecentRequestCount")
    /\ RecentRequestCount(stats, Attacker, 1 * Minute, now) > 0
    /\ Attacker \in DOMAIN blockedIPs
    /\ Attacker \in DOMAIN rateLimitedIPs

-----------------------------------------------------------------------------
(* Claims about the floors of the detector, checked under SpecDetector. *)

(* C23: AnalyzeTraffic never returns repeated_queries when the slice it     *)
(* read for the last minute holds fewer than 20 events, never               *)
(* random_subdomain when it holds fewer than 30, never query_burst when it  *)
(* holds fewer than 10, whatever the names queried.                         *)
C23_HardFloors ==
    ret.op = "AnalyzeTraffic" =>
        /\ ret.result.AttackType = "repeated_queries" => Len(ret.queries) >= 20
        /\ ret.result.AttackType = "random_subdomain" => Len(ret.queries) >= 30
        /\ ret.result.AttackType = "query_burst" => Len(ret.queries) >= 10

\* 15 events of the last minute, all for one name, more than 10 and more than half of
\* the slice, were analysed and gave no verdict
C23_UnderFloor ==
    /\ ret.op = "AnalyzeTraffic"
    /\ Len(ret.queries) = 15
    /\ \A i \in 1..15 : ret.queries[i].Domain = ret.queries[1].Domain
    /\ ret.result = NoAttack

-----------------------------------------------------------------------------
(* Claims about the order of the kept queries, checked under SpecWindow. *)

\* s is the part of queries from some index to its end
IsSuffix(s, queries) ==
    \E k \in 0..Len(queries) : s = SubSeq(queries, k + 1, Len(queries))

(* C30: with a clock that never goes back and RecordRequest calls in any    *)
(* order, the Timestamps of each source's Queries never decrease along the  *)
(* slice, FirstSeen is not after LastRequestTime, and the queries inside a  *)
(* window ending now, its lower end taken in or not, are the slice from     *)
(* some index to its end.                                                   *)
C30_Ordered ==
    \A ip \in DOMAIN stats :
        LET queries == stats[ip].Queries
        IN  /\ \A i \in 1..Len(queries) - 1 :
                  queries[i].Timestamp <= queries[i + 1].Timestamp
            /\ stats[ip].FirstSeen <= stats[ip].LastRequestTime
            /\ \A w \in Durations :
                  /\ IsSuffix(RecentQueries(stats, ip, w, now), queries)
                  /\ IsSuffix(SelectSeq(queries, LAMBDA q : q.Timestamp >= now - w), queries)

\* a source whose kept queries were recorded at different times, with a window that
\* holds some of them and not all
C30_WindowCutsSlice ==
    \E ip \in DOMAIN stats, w \in Durations :
        /\ stats[ip].FirstSeen < stats[ip].LastRequestTime
        /\ RecentQueries(stats, ip, w, now) # <<>>
        /\ Len(RecentQueries(stats, ip, w, now)) < Len(stats[ip].Queries)

-----------------------------------------------------------------------------
(* Further claims about the blocker, checked under SpecBlocker. *)

(* C26: BlockIP increments BlockCount only when the entry it finds is still *)
(* active (now before BlockUntil); on a source whose entry is absent or     *)
(* has expired, purged or not, it yields an entry with BlockCount 1 and     *)
(* BlockedAt now.                                                           *)
C26_EscalateOnlyActive ==
    [][ret'.op = "BlockIP" =>
          LET ip == ret'.ip
          IN  IF ip \in DOMAIN blockedIPs /\ now < blockedIPs[ip].BlockUntil
              THEN blockedIPs'[ip].BlockCount = blockedIPs[ip].BlockCount + 1
              ELSE /\ blockedIPs'[ip].BlockCount = 1
                   /\ blockedIPs'[ip].BlockedAt = now
      ]_vars

-----------------------------------------------------------------------------
(* Claims about what the analysis of a request sees, checked under SpecServer. *)

\* the events of ip whose RecordRequest call has returned and that are less than a
\* minute old
VisibleEvents(ip) == SelectSeq(history[ip], LAMBDA q : q.Timestamp > now - 1 * Minute)

\* the step is the read of the count by the AnalyzeTraffic call of goroutine t
ReadsCount(t) == hd[t] # Idle /\ hd[t].pc = "AnalyzeTraffic" /\ hd'[t] # hd[t]

\* the step is the read of the queries by the AnalyzeTraffic call of goroutine t
ReadsQueries(t) == hd[t] # Idle /\ hd[t].pc = "AnalyzeQueries" /\ hd'[t] # hd[t]

-----------------------------------------------------------------------------
(* Claims about the separation of the sources, checked under SpecIsolation. *)

\* the step leaves the record, the block entry and the rate-limit entry of k as they are
SameEntries(k) ==
    /\ (k \in DOMAIN stats') = (k \in DOMAIN stats)
    /\ k \in DOMAIN stats => stats'[k] = stats[k]
    /\ (k \in DOMAIN blockedIPs') = (k \in DOMAIN blockedIPs)
    /\ k \in DOMAIN blockedIPs => blockedIPs'[k] = blockedIPs[k]
    /\ (k \in DOMAIN rateLimitedIPs') = (k \in DOMAIN rateLimitedIPs)
    /\ k \in DOMAIN rateLimitedIPs => rateLimitedIPs'[k] = rateLimitedIPs[k]

\* the step is, or is part of, a call made for the source s
CalledFor(s) ==
    \/ ret'.op \in {"GetRecentRequestCount", "GetRecentQueries", "IsBlocked", "IsRateLimited",
                    "BlockIP", "RateLimitIP", "UnblockIP", "AnalyzeTraffic"} /\ ret'.ip = s
    \/ history'[s] # history[s]
    \/ \E t \in Threads :
          /\ rd'[t] # rd[t]
          /\ (rd'[t] # Idle /\ rd'[t].ip = s) \/ (rd[t] # Idle /\ rd[t].ip = s)
    \/ /\ az' # az
       /\ (az' # Idle /\ az'.ip = s) \/ (az # Idle /\ az.ip = s)

\* what the monitor keeps of the events recorded for s that are less than a minute old
OwnEvents(s) == After(LastN(history[s], QueryCap), now - 1 * Minute)

(* C28: every call made for a source s, RecordRequest, the two reads of the *)
(* monitor, IsBlocked, IsRateLimited, BlockIP, RateLimitIP, UnblockIP and   *)
(* AnalyzeTraffic, leaves the record, the block entry and the rate-limit    *)
(* entry of every other source unchanged, and the count and the queries an  *)
(* analysis of s reads, from which it makes its verdict, are those of the   *)
(* events recorded for s.                                                   *)
C28_Isolation ==
    [][/\ \A s \in IPs : CalledFor(s) => \A k \in IPs \ {s} : SameEntries(k)
       /\ (az = Idle /\ az' # Idle) => az'.count = Len(OwnEvents(az'.ip))
       /\ (az = Idle /\ ret'.op = "AnalyzeTraffic") =>
             /\ ret'.count = Len(OwnEvents(ret'.ip))
             /\ ret'.result = HighRateResult(ret'.count, rateLimit)
       /\ (az # Idle /\ ret'.op = "AnalyzeTraffic") =>
             /\ ret'.ip = az.ip /\ ret'.count = az.count
             /\ az.pc = "queries" => ret'.queries = OwnEvents(az.ip)
             /\ az.pc = "burst" => ret'.queries = az.queries
       /\ (az # Idle /\ az' # Idle /\ az' # az) =>
             /\ az'.ip = az.ip
             /\ az'.queries = OwnEvents(az.ip)
      ]_vars

\* a source was blocked while the other source had a record and a block entry
C28_BothSources ==
    /\ ret.op = "BlockIP" /\ ret.ip = Attacker
    /\ Stranger \in DOMAIN blockedIPs
    /\ Stranger \in DOMAIN stats

-----------------------------------------------------------------------------
(* Claims about the slice GetRecentQueries returns, checked under SpecHeld. *)

\* the number of the queries of s that are not after cutoff
NotAfter(s, cutoff) == Cardinality({i \in 1..Len(s) : ~(s[i].Timestamp > cutoff)})

\* queries holds, in the order of recording, the queries of kept that are less than
\* a minute old
InWindowInOrder(queries, kept) ==
    LET old == NotAfter(kept, now - 1 * Minute)
    IN  /\ Len(queries) = Len(kept) - old
        /\ \A i \in 1..Len(queries) :
              /\ queries[i] = kept[old + i]
              /\ queries[i].Timestamp > now - 1 * Minute

(* C21: GetRecentQueries returns the queries of the source that are inside  *)
(* the window, in the order they were recorded, and the slice a caller has  *)
(* been given stays as it was returned whatever is recorded afterwards,     *)
(* evictions at the cap of 100 included, and whatever the retention sweep   *)
(* removes.                                                                 *)
C21_HeldCopy ==
    [][/\ (az # Idle /\ az.pc = "queries" /\ az' # Idle /\ az'.pc = "burst") =>
             InWindowInOrder(az'.queries, LastN(history[az.ip], QueryCap))
       /\ (az # Idle /\ az.pc = "burst" /\ az' # Idle) => az' = az
       /\ (az # Idle /\ az.pc = "burst" /\ az' = Idle) =>
             ret'.op = "AnalyzeTraffic" /\ ret'.queries = az.queries
      ]_vars

\* the caller holds the 60 queries it was given while the source has made 120
\* requests and the monitor has dropped the first 20 of those the caller holds
C21_HeldAcrossEviction ==
    /\ az # Idle /\ az.pc = "burst"
    /\ Len(az.queries) = 60
    /\ Len(history[Attacker]) = 120
    /\ Attacker \in DOMAIN stats
    /\ Len(stats[Attacker].Queries) = QueryCap
    /\ stats[Attacker].Queries[1] = az.queries[21]

-----------------------------------------------------------------------------
(* Claims about the two tracks of the mitigation store, checked under      *)
(* SpecBlocker.                                                            *)

\* the step is one of a call of IsBlocked: its lookup or its delete
IsBlockedStep ==
    \/ ret'.op = "IsBlocked"
    \/ \E t \in Threads : rd'[t] # rd[t] /\ "deleteBlock" \in {rd[t].pc, rd'[t].pc}

\* the step is one of a call of IsRateLimited: its lookup or its delete
IsRateLimitedStep ==
    \/ ret'.op = "IsRateLimited"
    \/ \E t \in Threads : rd'[t] # rd[t] /\ "deleteLimit" \in {rd[t].pc, rd'[t].pc}

\* m2 is m without some of its entries, the others as they were
OnlyRemoves(m, m2) ==
    /\ DOMAIN m2 \subseteq DOMAIN m
    /\ \A k \in DOMAIN m2 : m2[k] = m[k]

\* BlockIP leaves the rate limits alone, RateLimitIP the blocks, IsBlocked at most
\* removes a block and IsRateLimited at most removes a rate limit
TracksApart ==
    /\ BlockIPReturns => rateLimitedIPs' = rateLimitedIPs
    /\ RateLimitIPReturns => blockedIPs' = blockedIPs
    /\ IsBlockedStep =>
          /\ rateLimitedIPs' = rateLimitedIPs
          /\ OnlyRemoves(blockedIPs, blockedIPs')
    /\ IsRateLimitedStep =>
          /\ blockedIPs' = blockedIPs
          /\ OnlyRemoves(rateLimitedIPs, rateLimitedIPs')

\* the step changes both b.blockedIPs and b.rateLimitedIPs
TouchesBoth == blockedIPs' # blockedIPs /\ rateLimitedIPs' # rateLimitedIPs

(* C27, as stated: the tracks are apart and UnblockIP is the only operation *)
(* that changes both maps.                                                  *)
C27_OnlyUnblock ==
    [][TracksApart /\ (TouchesBoth => UnblockIPReturns)]_vars

(* C27: BlockIP never creates, changes or removes a rate-limit entry,       *)
(* RateLimitIP never creates, changes or removes a block entry, IsBlocked   *)
(* only ever removes a block entry and IsRateLimited only a rate-limit      *)
(* entry.  The operations that change both maps are UnblockIP, which        *)
(* removes the two entries of its source, and the sweep, which removes from *)
(* each map the entries that have expired in it and nothing else.           *)
C27_TracksApart ==
    [][/\ TracksApart
       /\ TouchesBoth => UnblockIPReturns \/ ret'.op = "cleanup"
       /\ UnblockIPReturns =>
             /\ blockedIPs' = Delete(blockedIPs, ret'.ip)
             /\ rateLimitedIPs' = Delete(rateLimitedIPs, ret'.ip)
       /\ ret'.op = "cleanup" =>
             /\ OnlyRemoves(blockedIPs, blockedIPs')
             /\ OnlyRemoves(rateLimitedIPs, rateLimitedIPs')
             /\ DOMAIN blockedIPs \ DOMAIN blockedIPs' =
                   {k \in DOMAIN blockedIPs : now > blockedIPs[k].BlockUntil}
             /\ DOMAIN rateLimitedIPs \ DOMAIN rateLimitedIPs' =
                   {k \in DOMAIN rateLimitedIPs : now > rateLimitedIPs[k]}
      ]_vars

\* one run of the sweep has removed the block and the rate limit of the same source
C27_SweptBothTracks ==
    /\ ret.op = "cleanup"
    /\ ret.unblocked \cap ret.unlimited # {}
    /\ blockedIPs = EmptyMap
    /\ rateLimitedIPs = EmptyMap

-----------------------------------------------------------------------------
(* Claims about the life of a mitigation entry, checked under LiveSweep.   *)

\* the source has a block entry in the store
HasBlock(ip) == ip \in DOMAIN blockedIPs

\* the source has a rate-limit entry in the store
HasLimit(ip) == ip \in DOMAIN rateLimitedIPs

(* C25: with the clock going on and the sweep being run, every block entry  *)
(* and every rate-limit entry is eventually gone from the store (or the     *)
(* process has died of the map race), and a source without an entry gets    *)
(* one only by a call of BlockIP, respectively RateLimitIP, for it.         *)
C25_EntryLifecycle ==
    /\ \A ip \in IPs : HasBlock(ip) ~> (fatal \/ ~HasBlock(ip))
    /\ \A ip \in IPs : HasLimit(ip) ~> (fatal \/ ~HasLimit(ip))
    /\ [][\A ip \in IPs :
             /\ (~HasBlock(ip) /\ HasBlock(ip)') => (ret'.op = "BlockIP" /\ ret'.ip = ip)
             /\ (~HasLimit(ip) /\ HasLimit(ip)') => (ret'.op = "RateLimitIP" /\ ret'.ip = ip)
         ]_vars

\* the sweep has just removed the expired block and the expired rate limit that two
\* calls had made, no lookup having come in between
C25_SweptExpired ==
    /\ ret.op = "cleanup"
    /\ ret.unblocked = {Attacker}
    /\ ret.unlimited = {Attacker}
    /\ nops = 2
    /\ ~fatal

-----------------------------------------------------------------------------
(* Claims about the end of the sweep goroutines, checked under             *)
(* LiveShutdown.                                                           *)

\* StartCleanup of k has returned
Stopped(k) == sweeper[k] = "stopped"

(* C22: once main has cancelled the context, each of the two StartCleanup   *)
(* goroutines returns in the end (or the process has died of the map race); *)
(* a goroutine that has returned stays so and runs no cleanup any more:    *)
(* from then on no record leaves the monitor, and a block leaves the        *)
(* blocker only by a lookup; and it does not hold its store's lock, when it *)
(* returns or afterwards.                                                   *)
C22_Shutdown ==
    /\ (ctx = "cancelled") ~> (fatal \/ \A k \in Sweepers : Stopped(k))
    /\ [][\A k \in Sweepers :
             Stopped(k) => /\ Stopped(k)'
                           /\ swept'[k] = swept[k]
                           /\ ~mu'[k]
         ]_vars
    /\ [][/\ Stopped("tm") => DOMAIN stats \subseteq DOMAIN stats'
          /\ (Stopped("b") /\ ~(DOMAIN blockedIPs \subseteq DOMAIN blockedIPs')) =>
                \E t \in Threads : rd[t].pc = "deleteBlock" /\ rd'[t] = Idle
         ]_vars
    /\ [](\A k \in Sweepers : Stopped(k) => ~mu[k])

\* both goroutines have swept and have returned after the cancellation, their locks
\* free; the last call to return was the blocker's cleanup, which removed an expired
\* block
C22_BothStopped ==
    /\ ctx = "cancelled"
    /\ \A k \in Sweepers : Stopped(k) /\ swept[k] /\ ~mu[k]
    /\ ret.op = "cleanup"
    /\ ret.unblocked = {Attacker}

-----------------------------------------------------------------------------
(* Claims about concurrent handleDNSRequest calls and a blocked source,    *)
(* checked under SpecServer.                                               *)

\* the source has a block entry that has not expired
ActiveBlock(ip) == ip \in DOMAIN blockedIPs /\ StillBlocked(blockedIPs[ip], now)

\* the step appends a query of ip to the monitor
Appends(ip) == Len(history'[ip]) > Len(history[ip])

\* the step is a BlockIP call for ip: it makes or rewrites the block entry of ip
Blocks(ip) ==
    /\ ip \in DOMAIN blockedIPs'
    /\ ip \in DOMAIN blockedIPs => blockedIPs'[ip] # blockedIPs[ip]

\* the step is a RateLimitIP call for ip that makes or moves the rate limit of ip
Limits(ip) ==
    /\ ip \in DOMAIN rateLimitedIPs'
    /\ ip \in DOMAIN rateLimitedIPs => rateLimitedIPs'[ip] # rateLimitedIPs[ip]

(* C32: whatever the interleaving of the request handlers, no query of a    *)
(* source is recorded and no BlockIP or RateLimitIP call is made for it     *)
(* while the source has a block entry that has not expired.                 *)
C32_NothingWhileBlocked ==
    [][\A ip \in IPs :
          ActiveBlock(ip) => ~Appends(ip) /\ ~Blocks(ip) /\ ~Limits(ip)
      ]_vars

-----------------------------------------------------------------------------
(* Claims about handleDNSRequest calls that do not overlap, checked under  *)
(* SpecSequential.                                                         *)

(* C31: when the requests of a source are handled one after the other and   *)
(* only the handler blocks, BlockIP is called only while the source has no  *)
(* block entry, so every block entry in the store has BlockCount 1.         *)
C31_SequentialBlocks ==
    /\ [][\A ip \in IPs :
             Blocks(ip) => ip \notin DOMAIN blockedIPs /\ blockedIPs'[ip].BlockCount = 1
         ]_vars
    /\ [](\A ip \in DOMAIN blockedIPs : blockedIPs[ip].BlockCount = 1)

\* the source has been blocked a second time, after its first block had expired and
\* the lookup of a later request had removed it
C31_BlockedAgain ==
    /\ Attacker \in DOMAIN blockedIPs
    /\ blockedIPs[Attacker].BlockedAt >= 300 * Second
    /\ blockedIPs[Attacker].BlockCount = 1
    /\ Len(history[Attacker]) = 6
    /\ wire.op = "handleDNSRequest" /\ wire.mitigation = "BlockIP"

====
